---- MODULE Spec2Model ----
(***************************************************************************)
(* A model of the configuration / casting core of panda3d-gemstone:       *)
(*   framework/cast.py          CastBridge and the registered casters      *)
(*   framework/configurable.py  OSConfigurableCache and Configurable       *)
(* Text is modelled as sequences of one-character strings, so that         *)
(* parsing (strip, split, int(), float(), snake casing) is computed and    *)
(* not assumed.                                                            *)
(***************************************************************************)
EXTENDS Integers, Sequences, FiniteSets, TLC

VARIABLES
    registry,   \* ClassRegistry entries with is_caster=True, in registration order
    casters,    \* CastBridge.__casters__
    value,      \* the string handed to cast()
    output,     \* what cast(value) produced (a typed value or a raised exception)
    fs,         \* the file system: path -> file record (config sources and .dat files)
    clock,      \* the file system's time
    datWritable,\* whether open(dat_file, 'wb') succeeds (directory permissions)
    cacheFiles, \* OSConfigurableCache._files of Configurable.__cache
    obj,        \* the Configurable (subclass) instance under observation; in the
                \* specifications of services, singletons, progress counters and
                \* cameras, the objects of that part
    last,       \* what the last operation did: calls made, warnings, exception
    given,      \* the arguments of the function applied on its own (pcast, export
                \* steps, indented files)
    result      \* what that function returned or raised

castVars == <<registry, casters, value, output>>
cfgVars == <<fs, clock, datWritable, cacheFiles, obj, last>>
fnVars == <<given, result>>
vars == <<registry, casters, value, output, fs, clock, datWritable, cacheFiles, obj, last,
          given, result>>

(***************************************************************************)
(* Python text primitives used by the code                                 *)
(***************************************************************************)

\* the element of a one-element set; Only({e(x) : x \in {v}}) is e with the local
\* variable x assigned v once
Only(S) == CHOOSE r \in S : TRUE

DigitChars == <<"0", "1", "2", "3", "4", "5", "6", "7", "8", "9">>

UpperChars == <<"A", "B", "C", "D", "E", "F", "G", "H", "I", "J", "K", "L", "M",
                "N", "O", "P", "Q", "R", "S", "T", "U", "V", "W", "X", "Y", "Z">>

LowerChars == <<"a", "b", "c", "d", "e", "f", "g", "h", "i", "j", "k", "l", "m",
                "n", "o", "p", "q", "r", "s", "t", "u", "v", "w", "x", "y", "z">>

IsDigit(c) == \E i \in 1..10 : DigitChars[i] = c

IsUpper(c) == \E i \in 1..26 : UpperChars[i] = c

DigitVal(c) == (CHOOSE i \in 1..10 : DigitChars[i] = c) - 1

LowerChar(c) ==
    IF IsUpper(c) THEN LowerChars[CHOOSE i \in 1..26 : UpperChars[i] = c] ELSE c

\* str.lower()
lower(s) == [i \in 1..Len(s) |-> LowerChar(s[i])]

IsSpace(c) == c = " "

RECURSIVE lstrip(_)
lstrip(s) == IF s # <<>> /\ IsSpace(Head(s)) THEN lstrip(Tail(s)) ELSE s

RECURSIVE rstrip(_)
rstrip(s) ==
    IF s # <<>> /\ IsSpace(s[Len(s)]) THEN rstrip(SubSeq(s, 1, Len(s) - 1)) ELSE s

\* str.strip()
strip(s) == rstrip(lstrip(s))

\* s[a:b] with 0 <= a and b = len(s) - back  (the slices value[1:-1], value[n+1:-1])
slice(s, a, back) == SubSeq(s, a + 1, Len(s) - back)

\* s[:n]
prefix(s, n) == SubSeq(s, 1, IF n < Len(s) THEN n ELSE Len(s))

\* str.split(sep): the parts between the separators, [''] for the empty string
RECURSIVE split_from(_, _, _, _)
split_from(s, sep, i, word) ==
    IF i > Len(s) THEN <<word>>
    ELSE IF s[i] = sep THEN <<word>> \o split_from(s, sep, i + 1, <<>>)
    ELSE split_from(s, sep, i + 1, Append(word, s[i]))

split(s, sep) == split_from(s, sep, 1, <<>>)

(***************************************************************************)
(* Typed values: what a cast yields                                        *)
(***************************************************************************)

IntV(n) == [int |-> n]
\* a float is num / 10^scale, with no trailing zero in the fraction
FloatV(num, scale) == [fnum |-> num, fscale |-> scale]
BoolV(b) == [bool |-> b]
NoneV == [none |-> TRUE]
StrV(s) == [str |-> s]
ListV(vs) == [list |-> vs]
TupleV(vs) == [tuple |-> vs]
\* the call cls(*args) of a panda3d.core constructor
CtorV(cls, args) == [cls |-> cls, args |-> args]
\* a BitMask32 as the set of its bits
BitMaskV(bits) == [bits |-> bits]
\* an exception propagating out of the call
Raise(exc) == [raise |-> exc]

IsRaise(r) == "raise" \in DOMAIN r

IsTuple(v) == "tuple" \in DOMAIN v

(***************************************************************************)
(* int() and float() of a string                                           *)
(***************************************************************************)

IsDigits(s) == s # <<>> /\ \A i \in 1..Len(s) : IsDigit(s[i])

HasSign(s) == s # <<>> /\ Head(s) \in {"+", "-"}

Unsigned(s) == IF HasSign(s) THEN Tail(s) ELSE s

Sign(s) == IF s # <<>> /\ Head(s) = "-" THEN -1 ELSE 1

RECURSIVE DigitsVal(_)
DigitsVal(ds) ==
    IF ds = <<>> THEN 0
    ELSE DigitsVal(SubSeq(ds, 1, Len(ds) - 1)) * 10 + DigitVal(ds[Len(ds)])

\* int(s): optional surrounding whitespace, optional sign, decimal digits
int_ok(s) == IsDigits(Unsigned(strip(s)))

int_of(s) == Sign(strip(s)) * DigitsVal(Unsigned(strip(s)))

DotCount(s) == Cardinality({i \in 1..Len(s) : s[i] = "."})

NoDots(s) == SelectSeq(s, LAMBDA c : c # ".")

FracLen(s) ==
    IF DotCount(s) = 0 THEN 0
    ELSE Len(s) - (CHOOSE i \in 1..Len(s) : s[i] = ".")

RECURSIVE Normalize(_, _)
Normalize(num, scale) ==
    IF scale > 0 /\ num % 10 = 0 THEN Normalize(num \div 10, scale - 1)
    ELSE FloatV(num, scale)

\* float(s): optional whitespace and sign, digits with at most one decimal point
\* (the exponent, inf and nan spellings do not occur over the alphabet modelled)
float_ok(s) ==
    LET body == Unsigned(strip(s))
    IN  /\ DotCount(body) <= 1
        /\ IsDigits(NoDots(body))

float_of(s) ==
    LET body == Unsigned(strip(s))
    IN  Normalize(Sign(strip(s)) * DigitsVal(NoDots(body)), FracLen(body))

(***************************************************************************)
(* Casters (framework/cast.py)                                             *)
(***************************************************************************)

StringCaster(key, o) == [kind |-> "StringCaster", key |-> key, obj |-> o]

SequenceCaster(cls, left, right, seperator) ==
    [kind |-> "SequenceCaster", cls |-> cls, left |-> left, right |-> right,
     seperator |-> seperator]

ScalarCaster(type_name, classes) ==
    [kind |-> "ScalarCaster", type_name |-> type_name, classes |-> classes]

FalseCast == StringCaster(<<"f", "a", "l", "s", "e">>, BoolV(FALSE))

TrueCast == StringCaster(<<"t", "r", "u", "e">>, BoolV(TRUE))

ListCast == SequenceCaster("list", "[", "]", ",")

NoneCast == StringCaster(<<"n", "o", "n", "e">>, NoneV)

PandaBitCast == [kind |-> "PandaBitCast", type_name |-> <<"B", "i", "t">>]

PandaPointCast ==
    ScalarCaster(<<"P", "o", "i", "n", "t">>, <<"Point2", "Point3", "Point4">>)

PandaVectorCast == ScalarCaster(<<"V", "e", "c">>, <<"Vec2", "Vec3", "Vec4">>)

QuotedStringCast == [kind |-> "QuotedStringCast"]

TupleCast == SequenceCaster("tuple", "(", ")", ",")

\* the module's own registrations, in the order of its __register_internal_caster calls
InternalCasters ==
    <<FalseCast, TrueCast, ListCast, NoneCast, PandaBitCast, PandaPointCast,
      PandaVectorCast, QuotedStringCast, TupleCast>>

\* the result of an accepted(): acc is the truth of the returned object
Accepted(b) == [acc |-> b]

\* StringCaster.accepted
StringCaster_accepted(c, v) == Accepted(lower(v) = c.key)

\* SequenceCaster.accepted
SequenceCaster_accepted(c, v) ==
    Accepted(v # <<>> /\ v[1] = c.left /\ v[Len(v)] = c.right)

\* ScalarCaster.accepted and PandaBitCast.accepted: value[n] is read as soon as the
\* prefix matches, and is out of range when nothing follows the type name
Named_accepted(c, v) ==
    LET n == Len(c.type_name)
    IN  IF prefix(v, n) # c.type_name THEN Accepted(FALSE)
        ELSE IF Len(v) <= n THEN Raise("IndexError")
        ELSE Accepted(v[n + 1] = "(" /\ v[Len(v)] = ")")

ScalarCaster_accepted(c, v) == Named_accepted(c, v)

PandaBitCast_accepted(c, v) == Named_accepted(c, v)

\* QuotedStringCast.accepted
QuotedStringCast_accepted(v) ==
    Accepted(v # <<>> /\ v[1] = v[Len(v)] /\ v[1] \in {"\"", "'"})

accepted(c, v) ==
    CASE c.kind = "StringCaster" -> StringCaster_accepted(c, v)
      [] c.kind = "SequenceCaster" -> SequenceCaster_accepted(c, v)
      [] c.kind = "ScalarCaster" -> ScalarCaster_accepted(c, v)
      [] c.kind = "PandaBitCast" -> PandaBitCast_accepted(c, v)
      [] c.kind = "QuotedStringCast" -> QuotedStringCast_accepted(v)

\* SequenceCaster.__split: the words between separators met while the stack of
\* open self._left brackets is empty; stack.pop() on an empty stack raises
RECURSIVE SequenceCaster_split_loop(_, _, _, _, _, _)
SequenceCaster_split_loop(c, v, i, words, word, stack) ==
    IF i > Len(v)
    THEN Only({ [words |-> IF w # <<>> THEN Append(words, w) ELSE words]
                : w \in {strip(word)} })
    ELSE IF v[i] = c.left
    THEN SequenceCaster_split_loop(c, v, i + 1, words, Append(word, v[i]),
                                   Append(stack, i - 1))
    ELSE IF v[i] = c.right
    THEN IF stack = <<>> THEN Raise("IndexError")
         ELSE SequenceCaster_split_loop(c, v, i + 1, words, Append(word, v[i]),
                                        SubSeq(stack, 1, Len(stack) - 1))
    ELSE IF v[i] = c.seperator /\ stack = <<>>
    THEN SequenceCaster_split_loop(c, v, i + 1, Append(words, strip(word)), <<>>, stack)
    ELSE SequenceCaster_split_loop(c, v, i + 1, words, Append(word, v[i]), stack)

SequenceCaster_split(c, v) == SequenceCaster_split_loop(c, v, 1, <<>>, <<>>, <<>>)

\* the first exception of a sequence of results, or the results
FirstRaise(rs) ==
    IF \E i \in 1..Len(rs) : IsRaise(rs[i])
    THEN rs[CHOOSE i \in 1..Len(rs) :
                IsRaise(rs[i]) /\ \A j \in 1..(i - 1) : ~IsRaise(rs[j])]
    ELSE [values |-> rs]

\* classes[k] of a Python tuple: a negative k counts from the end
PyIndex(seq, k) ==
    IF k >= 0 /\ k < Len(seq) THEN [item |-> seq[k + 1]]
    ELSE IF k < 0 /\ -k <= Len(seq) THEN [item |-> seq[Len(seq) + k + 1]]
    ELSE Raise("IndexError")

to_float(n) ==
    IF int_ok(n) THEN FloatV(int_of(n), 0)
    ELSE IF float_ok(n) THEN float_of(n)
    ELSE Raise("ValueError")

\* ScalarCaster.__call__
ScalarCaster_call(c, v) ==
    Only({ Only({ IF IsRaise(cls) THEN cls
                  ELSE Only({ IF IsRaise(floats) THEN floats
                              ELSE CtorV(cls.item, floats.values)
                              : floats \in {FirstRaise([i \in 1..Len(parts) |->
                                                           to_float(parts[i])])} })
                  : cls \in {PyIndex(c.classes, Len(parts) - 2)} })
           : parts \in {split(slice(v, Len(c.type_name) + 1, 1), ",")} })

\* PandaBitCast.__call__: the bits named by the non-empty arguments, or'ed together
PandaBitCast_call(c, v) ==
    Only({ Only({ IF IsRaise(ints) THEN ints
                  ELSE BitMaskV({ints.values[i].int : i \in 1..Len(ints.values)})
                  : ints \in {FirstRaise([i \in 1..Len(parts) |->
                                             IF int_ok(parts[i])
                                             THEN IntV(int_of(parts[i]))
                                             ELSE Raise("ValueError")])} })
           : parts \in {SelectSeq(split(slice(v, Len(c.type_name) + 1, 1), ","),
                                  LAMBDA n : n # <<>>)} })

\* QuotedStringCast.__call__
QuotedStringCast_call(v) == StrV(slice(v, 1, 1))

\* StringCaster.__call__
StringCaster_call(c, v) == c.obj

\* self._cls(values)
SequenceCaster_cls(cls, vs) == IF cls = "tuple" THEN TupleV(vs) ELSE ListV(vs)

primitives == <<"int", "float">>

\* CastBridge.__attempt_primitive_cast
attempt_primitive_cast(type, v) ==
    IF type = "int"
    THEN IF int_ok(v) THEN [success |-> TRUE, output |-> IntV(int_of(v))]
         ELSE [success |-> FALSE, output |-> NoneV]
    ELSE IF int_ok(v) THEN [success |-> TRUE, output |-> FloatV(int_of(v), 0)]
    ELSE IF float_ok(v) THEN [success |-> TRUE, output |-> float_of(v)]
    ELSE [success |-> FALSE, output |-> NoneV]

RECURSIVE cast(_, _)
RECURSIVE call_caster(_, _, _)
RECURSIVE apply_casters(_, _, _)

\* SequenceCaster.__call__: every word is cast in turn, with the bridge's casters
SequenceCaster_call(cs, c, v) ==
    Only({ IF IsRaise(r) THEN r
           ELSE IF r.words # <<>>
           THEN Only({ IF IsRaise(vs) THEN vs ELSE SequenceCaster_cls(c.cls, vs.values)
                       : vs \in {FirstRaise([i \in 1..Len(r.words) |->
                                                cast(cs, r.words[i])])} })
           ELSE SequenceCaster_cls(c.cls, <<>>)
           : r \in {SequenceCaster_split(c, slice(v, 1, 1))} })

call_caster(cs, c, v) ==
    CASE c.kind = "StringCaster" -> StringCaster_call(c, v)
      [] c.kind = "SequenceCaster" -> SequenceCaster_call(cs, c, v)
      [] c.kind = "ScalarCaster" -> ScalarCaster_call(c, v)
      [] c.kind = "PandaBitCast" -> PandaBitCast_call(c, v)
      [] c.kind = "QuotedStringCast" -> QuotedStringCast_call(v)

\* the loop with the last accepting caster performing the cast
apply_last(cs, i, out) ==
    LET acc == {j \in i..Len(cs) : accepted(cs[j], out) = Accepted(TRUE)}
    IN  IF acc = {} THEN StrV(out)
        ELSE call_caster(cs, cs[CHOOSE j \in acc : \A k \in acc : k <= j], out)

\* the loop over cls.__casters__ of CastBridge.__new__, from caster i on: the first
\* caster that accepts performs the cast and ends the loop
apply_casters(cs, i, out) ==
    IF i > Len(cs) THEN StrV(out)
    ELSE Only({ IF IsRaise(a) THEN a
                ELSE IF a.acc THEN call_caster(cs, cs[i], out)
                ELSE apply_casters(cs, i + 1, out)
                : a \in {accepted(cs[i], out)} })

RECURSIVE attempt_primitives(_, _, _)
\* the loop over cls.__primitives__ of CastBridge.__new__
attempt_primitives(cs, i, v) ==
    IF i > Len(primitives) THEN apply_casters(cs, 1, strip(v))
    ELSE Only({ IF r.success THEN r.output ELSE attempt_primitives(cs, i + 1, v)
                : r \in {attempt_primitive_cast(primitives[i], v)} })

\* CastBridge.__new__
cast(cs, v) == attempt_primitives(cs, 1, v)

(***************************************************************************)
(* The strings cast() is tried on                                          *)
(***************************************************************************)

\* the arguments a literal may hold at most
MaxArgs == 2

\* the casters registered besides the module's own, at most
MaxCustomCasters == 1

RECURSIVE Join(_, _)
Join(parts, sep) ==
    IF parts = <<>> THEN <<>>
    ELSE IF Len(parts) = 1 THEN parts[1]
    ELSE parts[1] \o <<sep>> \o Join(Tail(parts), sep)

Atoms ==
    { <<"1">>, <<"1", ".", "5">>, <<"a">>, <<"T", "r", "u", "e">>,
      <<"N", "o", "n", "e">>, <<>>,
      <<"'", "a", "'">>, <<" ", "2">>, <<"[", "1", ",", "2", "]">>,
      <<"(", "1", ",", "2", ")">> }

TypeNames == { <<>>, <<"V", "e", "c">>, <<"P", "o", "i", "n", "t">>, <<"B", "i", "t">> }

Opens == { <<>>, <<"(">>, <<"[">> }

Closes == { <<>>, <<")">>, <<"]">> }

ArgLists == UNION { [1..n -> Atoms] : n \in 0..MaxArgs }

\* the components a vector or point literal may hold at most
MaxComponents == 5

Numbers == { <<"1">>, <<"1", ".", "5">> }

NumberLists == UNION { [1..n -> Numbers] : n \in 3..MaxComponents }

\* Vec(...) and Point(...) literals of three and more numbers
VectorLiterals ==
    { n \o <<"(">> \o Join(a, ",") \o <<")">> :
          n \in { <<"V", "e", "c">>, <<"P", "o", "i", "n", "t">> }, a \in NumberLists }

\* list and tuple literals that hold list and tuple literals
NestedLiterals ==
    { <<"[", "(", "1", ",", "2", ")", ",", " ", "[", "3", ",", "4", "]", "]">>,
      <<"(", "[", "1", ",", "2", "]", ",", " ", "3", ")">>,
      <<"[", "[", "1", ",", "2", "]", ",", " ", "3", "]">>,
      <<"(", "(", "1", ",", "2", ")", ",", " ", "3", ")">>,
      <<"[", "(", "1", ")", ",", " ", "2", "]">> }

\* well-formed and malformed literals: name, bracket, arguments, bracket
InputStrings ==
    { n \o o \o Join(a, ",") \o c : n \in TypeNames, o \in Opens, a \in ArgLists,
                                    c \in Closes }
        \cup VectorLiterals \cup NestedLiterals

\* casters another module may register: a second reading of 'none', and the
\* keyword 'point'
AmbiguousNoneCast == StringCaster(<<"n", "o", "n", "e">>, BoolV(FALSE))

PointKeywordCast ==
    StringCaster(<<"p", "o", "i", "n", "t">>, StrV(<<"p", "o", "i", "n", "t">>))

CustomCasters == { AmbiguousNoneCast, PointKeywordCast }

Pending == [pending |-> TRUE]

InSeq(x, seq) == \E i \in 1..Len(seq) : seq[i] = x

(***************************************************************************)
(* Registration and casting                                                *)
(***************************************************************************)

\* the is_caster entries of the class registry, as query_meta returns them
query_meta == registry

\* register_caster(c), called by a module of the application
register_caster(c) ==
    /\ output = Pending
    /\ ~InSeq(c, registry)
    /\ Cardinality({i \in 1..Len(registry) : registry[i] \in CustomCasters})
           < MaxCustomCasters
    /\ registry' = Append(registry, c)
    /\ UNCHANGED <<casters, value, output>>
    /\ UNCHANGED cfgVars
    /\ UNCHANGED fnVars

\* the __register_internal_caster calls made while cast.py is imported
register_internal_casters ==
    /\ output = Pending
    /\ ~InSeq(FalseCast, registry)
    /\ registry' = registry \o InternalCasters
    /\ UNCHANGED <<casters, value, output>>
    /\ UNCHANGED cfgVars
    /\ UNCHANGED fnVars

\* __setup_casting
setup_casting ==
    /\ output = Pending
    /\ casters # query_meta
    /\ casters' = query_meta
    /\ UNCHANGED <<registry, value, output>>
    /\ UNCHANGED cfgVars
    /\ UNCHANGED fnVars

\* cast(v)
Cast(v) ==
    /\ output = Pending
    /\ value' = v
    /\ output' = cast(casters, v)
    /\ UNCHANGED <<registry, casters>>
    /\ UNCHANGED cfgVars
    /\ UNCHANGED fnVars

\* nothing constructed, no file: the state of the configuration side while the
\* casts are examined
\* no function applied on its own
IdleFn ==
    /\ given = <<>>
    /\ result = Pending

IdleCfg ==
    /\ fs = [p \in {} |-> NoneV]
    /\ clock = 1
    /\ datWritable = TRUE
    /\ cacheFiles = <<>>
    /\ obj = [constructed |-> FALSE]
    /\ last = [op |-> "none"]

InitCast ==
    /\ registry = <<>>
    /\ casters = <<>>
    /\ value = <<>>
    /\ output = Pending
    /\ IdleCfg
    /\ IdleFn

NextCast ==
    \/ \E c \in CustomCasters : register_caster(c)
    \/ register_internal_casters
    \/ setup_casting
    \/ \E v \in InputStrings : Cast(v)

(***************************************************************************)
(* Python dictionaries, kept as sequences of (key, value) pairs in         *)
(* insertion order                                                          *)
(***************************************************************************)

Pair(k, v) == [k |-> k, v |-> v]

dict_has(d, k) == \E i \in 1..Len(d) : d[i].k = k

dict_index(d, k) == CHOOSE i \in 1..Len(d) : d[i].k = k

\* d.get(k, default)
dict_get(d, k, default) == IF dict_has(d, k) THEN d[dict_index(d, k)].v ELSE default

\* d[k] = v
dict_set(d, k, v) ==
    IF dict_has(d, k) THEN [d EXCEPT ![dict_index(d, k)] = Pair(k, v)]
    ELSE Append(d, Pair(k, v))

\* d.pop(k, default), as the dictionary left behind
dict_without(d, k) == SelectSeq(d, LAMBDA e : e.k # k)

RECURSIVE dict_of(_)
\* dict(items): a later pair of the same key replaces the value of the earlier one
dict_of(items) ==
    IF items = <<>> THEN <<>>
    ELSE LET rest == dict_of(SubSeq(items, 1, Len(items) - 1))
             e == items[Len(items)]
         IN  dict_set(rest, e.k, e.v)

dict_keys(d) == {d[i].k : i \in 1..Len(d)}

(***************************************************************************)
(* The file system and the configuration cache (configurable.py)           *)
(***************************************************************************)

NoFile == [exists |-> FALSE]

File(date, data) == [exists |-> TRUE, date |-> date, data |-> data]

\* io.file_system.get_file_date: the modification time, 0 for a missing file
get_file_date(files, path) == IF files[path].exists THEN files[path].date ELSE 0

LastDot(path) ==
    IF \E i \in 1..Len(path) : path[i] = "."
    THEN CHOOSE i \in 1..Len(path) :
             path[i] = "." /\ \A j \in (i + 1)..Len(path) : path[j] # "."
    ELSE 0

\* OSConfigurableCache.get_cache_filename: os.path.splitext(filepath)[0] + '.dat'
get_cache_filename(filepath) ==
    (IF LastDot(filepath) > 1 THEN SubSeq(filepath, 1, LastDot(filepath) - 1)
     ELSE filepath) \o <<".", "d", "a", "t">>

\* ConfigVariableBool('gs-use-dat', False).value
use_dat == FALSE

\* a parsed file: the ConfigParser's sections and their items, in file order
Reader(sections) == [sections |-> sections]

Section(name, items) == [name |-> name, items |-> items]

has_section(reader, name) ==
    \E i \in 1..Len(reader.sections) : reader.sections[i].name = name

items_of(reader, name) ==
    reader.sections[CHOOSE i \in 1..Len(reader.sections) :
                        reader.sections[i].name = name].items

sections_of(reader) == [i \in 1..Len(reader.sections) |-> reader.sections[i].name]

remove_section(reader, name) ==
    Reader(SelectSeq(reader.sections, LAMBDA sec : sec.name # name))

\* the world an operation runs in and changes: files, clock, cache, and what the
\* operation logged
World(files, time, cached) ==
    [fs |-> files, clock |-> time, cacheFiles |-> cached, parses |-> <<>>,
     warnings |-> <<>>]

Ret(w, ret) == [w |-> w, ret |-> ret]

Warn(w, msg) == [w EXCEPT !.warnings = Append(@, msg)]

\* OSConfigurableCache.__read_file: parse the source, None (and a warning) when
\* it is not there
read_file(w, filepath) ==
    IF w.fs[filepath].exists
    THEN Ret([w EXCEPT !.parses = Append(@, filepath)], Reader(w.fs[filepath].data))
    ELSE Ret(Warn(w, "Failed to load ini file"), NoneV)

\* the first half of OSConfigurableCache.read: refresh the .dat file from a newer
\* source; a .dat file that cannot be written is passed over (except IOError)
refresh_dat(w, filepath) ==
    LET dat_file == get_cache_filename(filepath)
    IN  IF get_file_date(w.fs, filepath) > get_file_date(w.fs, dat_file)
        THEN LET r == read_file(w, filepath)
             IN  IF r.ret # NoneV /\ datWritable
                 THEN [r.w EXCEPT !.fs[dat_file] = File(r.w.clock, r.ret),
                                  !.clock = @ + 1]
                 ELSE r.w
        ELSE w

\* the second half of OSConfigurableCache.read: fill or renew the entry of _files
fill_cache(w, filepath) ==
    LET dat_file == get_cache_filename(filepath)
        dat_date == get_file_date(w.fs, dat_file)
    IN  IF filepath \notin DOMAIN w.cacheFiles
        THEN IF dat_date # 0 /\ use_dat
             THEN Ret(w, Raise("TypeError"))
             ELSE LET r == read_file(w, filepath)
                  IN  Ret([r.w EXCEPT !.cacheFiles =
                              (filepath :> [reader |-> r.ret, date |-> dat_date]) @@ @],
                          NoneV)
        ELSE IF dat_date > w.cacheFiles[filepath].date
        THEN Ret([w EXCEPT !.cacheFiles[filepath] =
                      [reader |-> w.fs[dat_file].data, date |-> dat_date]], NoneV)
        ELSE Ret(w, NoneV)

\* OSConfigurableCache.read
OSConfigurableCache_read(w, filepath) ==
    Only({ IF IsRaise(f.ret) THEN f
           ELSE Ret(f.w, f.w.cacheFiles[filepath].reader)
           : f \in {fill_cache(Only({w1 : w1 \in {refresh_dat(w, filepath)}}),
                               filepath)} })

(***************************************************************************)
(* Configurable (configurable.py)                                          *)
(***************************************************************************)

\* Configurable.__include_str
include_str == <<"_", "_", "i", "n", "c", "l", "u", "d", "e", "_", "_">>

DefaultSection ==
    <<"C", "o", "n", "f", "i", "g", "u", "r", "a", "t", "i", "o", "n">>

NoExc == "none"

RECURSIVE snake_from(_, _)
snake_from(label, i) ==
    IF i > Len(label) THEN <<>>
    ELSE (IF IsUpper(label[i]) /\ i > 1 /\ ~IsUpper(label[i - 1]) /\ label[i - 1] # "_"
          THEN <<"_", LowerChar(label[i])>>
          ELSE <<LowerChar(label[i])>>) \o snake_from(label, i + 1)

\* framework.utilities.get_snake_case: 'AnimationStates' -> 'animation_states'
get_snake_case(label) == snake_from(label, 1)

\* a loader name that only lowers the section name
flat_loader_name(section) ==
    <<"l", "o", "a", "d", "_">> \o lower(section) \o <<"_", "d", "a", "t", "a">>

\* Configurable.__get_loader_name
get_loader_name(section) ==
    <<"l", "o", "a", "d", "_">> \o get_snake_case(section) \o <<"_", "d", "a", "t", "a">>

\* Configurable.__get_setter_name
get_setter_name(key) == <<"s", "e", "t", "_">> \o get_snake_case(key)

\* the properties of class Configurable that have no setter
ReadOnlyProperties == { <<"c", "o", "n", "f", "i", "g">> }

\* what a class built on Configurable adds to it: the set_* and load_*_data
\* methods it defines, which of them raise, and whether it provides self.notify
\* (InternalObject does, Configurable does not)
Class(methods, failing, hasNotify) ==
    [methods |-> methods, failing |-> failing, hasNotify |-> hasNotify]

PlainConfigurable == Class({}, {}, FALSE)

\* the fields Configurable.__init__ sets
NewObject(id, cls, path, section, auto_configure, want_config_warnings) ==
    [id |-> id, cls |-> cls, path |-> path, section |-> section,
     auto_configure |-> auto_configure,
     want_config_warnings |-> want_config_warnings,
     configuration |-> <<>>, configuration_is_dict |-> TRUE, config |-> NoneV,
     config_path |-> <<>>, included_config |-> NoneV, attrs |-> <<>>]

\* a call made on an object during an operation
Call(id, method, args) == [self |-> id, method |-> method, args |-> args]

\* the running state of an operation: the world, the object, the calls made so
\* far, and the exception that ended it
Step(w, o) == [w |-> w, o |-> o, calls |-> <<>>, processed |-> <<>>, exc |-> NoExc]

AddCall(S, method, args) ==
    [S EXCEPT !.calls = Append(@, Call(S.o.id, method, args))]

Fail(S, exc) == [S EXCEPT !.exc = exc]

\* the property with the return its body lacks
Configurable_config_returned(o) == o.config

\* the property Configurable.config: its body evaluates self.__config and returns
\* nothing
Configurable_config(o) == NoneV

\* Configurable.__prepare_data
prepare_data(data) ==
    Only({ IF IsRaise(rs) THEN rs
           ELSE [dict |-> dict_of([i \in 1..Len(data) |->
                                      Pair(data[i].k, rs.values[i])])]
           : rs \in {FirstRaise([i \in 1..Len(data) |->
                                    cast(InternalCasters, data[i].v)])} })

\* Configurable.load_data
load_data(S, section) ==
    LET S1 == AddCall(S, <<"l", "o", "a", "d", "_", "d", "a", "t", "a">>,
                      <<section, "self.__prepare_data">>)
    IN  IF S.o.want_config_warnings
        THEN [S1 EXCEPT !.w = Warn(@, "does not implement general section loader")]
        ELSE S1

\* Configurable.__load_section
load_section(S, section, data) ==
    LET loader_name == get_loader_name(section)
    IN  IF loader_name \in S.o.cls.methods
        THEN Only({ IF IsRaise(pd) THEN Fail(S, pd.raise)
                    ELSE IF loader_name \in S.o.cls.failing
                    THEN Fail(AddCall(S, loader_name, <<pd.dict>>), "LoaderError")
                    ELSE AddCall(S, loader_name, <<pd.dict>>)
                    : pd \in {prepare_data(data)} })
        ELSE load_data(IF S.o.want_config_warnings
                       THEN [S EXCEPT !.w = Warn(@, "Section loader does not exist")]
                       ELSE S,
                       section)

\* the ConfigParser self.__config is the object the cache holds: a change of one
\* is a change of the other
set_config(S, reader) ==
    [S EXCEPT !.o.config = reader,
              !.w.cacheFiles[S.o.config_path].reader = reader]

\* Configurable.__copy_section
copy_section(S, section, data) ==
    IF has_section(S.o.config, section) THEN Fail(S, "DuplicateSectionError")
    ELSE set_config(S, Reader(Append(S.o.config.sections,
                                     Section(section, dict_of(data)))))

\* the population with the precedence reversed: a key the configuration already
\* holds keeps the value it has
populate_keeping(S0, data, i) ==
    [S0 EXCEPT !.o.configuration =
        @ \o SelectSeq([j \in 1..Len(data) |->
                            Pair(data[j].k, cast(InternalCasters, data[j].v))],
                       LAMBDA e : e.k # include_str
                                  /\ ~dict_has(S0.o.configuration, e.k))]

RECURSIVE populate(_, _, _)
\* Configurable.load, 'Populate section data in configuration dict'
populate(S0, data, i) ==
    Only({ IF i > Len(data) \/ S.exc # NoExc THEN S
           ELSE IF data[i].k = include_str THEN populate(S, data, i + 1)
           ELSE Only({ IF IsRaise(c) THEN Fail(S, c.raise)
                       ELSE populate([S EXCEPT
                                         !.o.configuration = dict_set(@, data[i].k, c)],
                                     data, i + 1)
                       : c \in {cast(InternalCasters, data[i].v)} })
           : S \in {S0} })

RECURSIVE load_sections(_, _, _, _)
\* Configurable.load, 'Load all sections in our configuration object'
load_sections(S0, names, main_section, i) ==
    Only({ IF i > Len(names) \/ S.exc # NoExc THEN S
           ELSE IF names[i] = main_section
           THEN load_sections(S, names, main_section, i + 1)
           ELSE LET data == items_of(S.o.config, names[i])
                    inc == S.o.included_config
                IN  IF inc # NoneV /\ has_section(inc, names[i])
                    THEN LET merged == items_of(inc, names[i]) \o data
                         IN  Only({ load_sections(
                                        IF S1.exc # NoExc THEN S1
                                        ELSE load_section(
                                                 [S1 EXCEPT
                                                     !.processed = Append(@, names[i])],
                                                 names[i], merged),
                                        names, main_section, i + 1)
                                    : S1 \in {copy_section(
                                                  set_config(S, remove_section(S.o.config,
                                                                               names[i])),
                                                  names[i], merged)} })
                    ELSE load_sections(load_section(S, names[i], data), names,
                                       main_section, i + 1)
           : S \in {S0} })

RECURSIVE load_included(_, _, _)
\* Configurable.load, 'Process any included configurations'
load_included(S0, names, i) ==
    Only({ IF i > Len(names) \/ S.exc # NoExc THEN S
           ELSE IF InSeq(names[i], S.processed) THEN load_included(S, names, i + 1)
           ELSE LET data == items_of(S.o.included_config, names[i])
                IN  Only({ load_included(IF S1.exc # NoExc THEN S1
                                         ELSE copy_section(S1, names[i], data),
                                         names, i + 1)
                           : S1 \in {load_section(S, names[i], data)} })
           : S \in {S0} })

RECURSIVE Configurable_load(_, _, _)
RECURSIVE Configurable_init(_, _, _, _, _, _, _)

\* Configurable.load, 'Process include path if present'
process_include(S, data, main_section) ==
    LET include_path == dict_get(dict_of(data), include_str, <<>>)
    IN  IF include_path = <<>> THEN S
        ELSE Only({ IF inc.exc # NoExc
                    THEN Fail([S EXCEPT !.w = inc.w, !.calls = @ \o inc.calls], inc.exc)
                    ELSE [S EXCEPT !.w = inc.w, !.calls = @ \o inc.calls,
                                   !.o.included_config = Configurable_config(inc.o),
                                   !.o.configuration = inc.o.configuration,
                                   !.processed = Append(@, main_section)]
                    : inc \in {Configurable_init(S.w, "included", PlainConfigurable,
                                                 include_path, DefaultSection, FALSE,
                                                 S.o.want_config_warnings)} })

\* Configurable.load, the main section
load_main(S, main_section) ==
    IF has_section(S.o.config, main_section)
    THEN Only({ populate(process_include(S, data, main_section), data, 1)
                : data \in {items_of(S.o.config, main_section)} })
    ELSE S

\* Configurable.load, from 'Load all sections in our configuration object' on
load_rest(S3, main_section) ==
    Only({ Only({ IF S5.exc # NoExc THEN S5
                  ELSE [S5 EXCEPT !.o.included_config = NoneV]
                  : S5 \in {IF S4.exc = NoExc /\ S4.o.included_config # NoneV
                            THEN load_included(S4, sections_of(S4.o.included_config), 1)
                            ELSE S4} })
           : S4 \in {load_sections(S3, sections_of(S3.o.config), main_section, 1)} })

\* Configurable.load(opath, osection)
Configurable_load(S, opath, osection) ==
    LET path == IF opath # <<>> THEN opath ELSE S.o.path
        main_section == IF osection # <<>> THEN osection ELSE S.o.section
    IN  Only({ IF IsRaise(cr.ret) THEN Fail([S EXCEPT !.w = cr.w], cr.ret.raise)
               ELSE IF cr.ret = NoneV
               THEN [S EXCEPT !.w = cr.w, !.o.config = cr.ret, !.o.config_path = path]
               ELSE load_rest(load_main([S EXCEPT !.w = cr.w, !.o.config = cr.ret,
                                                  !.o.config_path = path],
                                        main_section),
                              main_section)
               : cr \in {OSConfigurableCache_read(S.w, path)} })

\* Configurable.__init__
Configurable_init(w, id, cls, path, section, auto_configure, want_config_warnings) ==
    LET S == Step(w, NewObject(id, cls, path, section, auto_configure,
                               want_config_warnings))
    IN  IF path # <<>> THEN Configurable_load(S, path, section) ELSE S

RECURSIVE dispatch(_, _, _)
\* Configurable.initialize, the loop over list(self.configuration.items())
dispatch(S0, items, i) ==
    Only({ IF i > Len(items) \/ S.exc # NoExc THEN S
           ELSE LET key == items[i].k
                    val == items[i].v
                    setter_name == get_setter_name(key)
                IN  IF setter_name \in S.o.cls.methods
                    THEN IF ~S.o.cls.hasNotify THEN Fail(S, "AttributeError")
                         ELSE dispatch(AddCall(S, setter_name,
                                               IF IsTuple(val) THEN val.tuple
                                               ELSE <<val>>),
                                       items, i + 1)
                    ELSE IF S.o.auto_configure
                    THEN IF key \in ReadOnlyProperties THEN Fail(S, "AttributeError")
                         ELSE dispatch([S EXCEPT !.o.attrs = dict_set(@, key, val)],
                                       items, i + 1)
                    ELSE dispatch([S EXCEPT !.w = Warn(@, "does not implement setter")],
                                  items, i + 1)
           : S \in {S0} })

\* Configurable.initialize
Configurable_initialize(S) ==
    IF ~S.o.configuration_is_dict
    THEN [S EXCEPT !.w = Warn(@, "Configuration is not a valid type")]
    ELSE Only({ IF S1.exc # NoExc THEN S1
                ELSE [S1 EXCEPT !.o.configuration = <<>>, !.o.config = NoneV,
                                !.o.included_config = NoneV]
                : S1 \in {dispatch(S, S.o.configuration, 1)} })

(***************************************************************************)
(* Operations on the Configurable under observation                        *)
(***************************************************************************)

NoObject == [constructed |-> FALSE]

\* what the last operation did
Last(op, key, ret, S, pre) ==
    [op |-> op, key |-> key, ret |-> ret, calls |-> S.calls,
     warnings |-> S.w.warnings, parses |-> S.w.parses, exc |-> S.exc, pre |-> pre]

NoLast ==
    [op |-> "none", key |-> <<>>, ret |-> NoneV, calls |-> <<>>, warnings |-> <<>>,
     parses |-> <<>>, exc |-> NoExc, pre |-> <<>>]

Commit(S) ==
    /\ fs' = S.w.fs
    /\ clock' = S.w.clock
    /\ cacheFiles' = S.w.cacheFiles
    /\ obj' = S.o

\* an object whose constructor raised is never bound to a name
Usable == obj # NoObject /\ ~(last.op = "__init__" /\ last.exc # NoExc)

\* obj = Cls(path): Configurable.__init__(self, path, section, auto_configure)
Construct(cls, path, auto_configure, want_config_warnings) ==
    /\ obj = NoObject
    /\ LET S == Configurable_init(World(fs, clock, cacheFiles), "self", cls, path,
                                  DefaultSection, auto_configure, want_config_warnings)
       IN  /\ Commit(S)
           /\ last' = Last("__init__", <<>>, NoneV, S, <<>>)
    /\ UNCHANGED datWritable
    /\ UNCHANGED castVars
    /\ UNCHANGED fnVars

\* obj.load()
Load ==
    /\ Usable
    /\ LET S == Configurable_load(Step(World(fs, clock, cacheFiles), obj), <<>>, <<>>)
       IN  /\ Commit(S)
           /\ last' = Last("load", <<>>, NoneV, S, obj.configuration)
    /\ UNCHANGED datWritable
    /\ UNCHANGED castVars
    /\ UNCHANGED fnVars

\* obj.initialize()
Initialize ==
    /\ Usable
    /\ LET S == Configurable_initialize(Step(World(fs, clock, cacheFiles), obj))
       IN  /\ Commit(S)
           /\ last' = Last("initialize", <<>>, NoneV, S, obj.configuration)
    /\ UNCHANGED datWritable
    /\ UNCHANGED castVars
    /\ UNCHANGED fnVars

\* obj.pop(attr): Configurable.pop
Pop(attr) ==
    /\ Usable
    /\ obj' = [obj EXCEPT !.configuration = dict_without(@, attr)]
    /\ last' = Last("pop", attr, dict_get(obj.configuration, attr, NoneV),
                    Step(World(fs, clock, cacheFiles), obj), obj.configuration)
    /\ UNCHANGED <<fs, clock, datWritable, cacheFiles>>
    /\ UNCHANGED castVars
    /\ UNCHANGED fnVars

\* obj.get(attr): Configurable.get
Get(attr) ==
    /\ Usable
    /\ last' = Last("get", attr, dict_get(obj.configuration, attr, NoneV),
                    Step(World(fs, clock, cacheFiles), obj), obj.configuration)
    /\ UNCHANGED <<fs, clock, datWritable, cacheFiles, obj>>
    /\ UNCHANGED castVars
    /\ UNCHANGED fnVars

(***************************************************************************)
(* The files and classes the operations are tried on                       *)
(***************************************************************************)

BasePath == <<"b", ".", "i", "n", "i">>

OtherPath == <<"o", ".", "i", "n", "i">>

GonePath == <<"g", ".", "i", "n", "i">>

SourcePaths == {BasePath, OtherPath, GonePath}

AllPaths == SourcePaths \cup {get_cache_filename(p) : p \in SourcePaths}

KeyA == <<"a", "B">>

KeyB == <<"b">>

KeyConfig == <<"c", "o", "n", "f", "i", "g">>

SecModel == <<"M", "o", "d", "e", "l">>

SecFxSet == <<"F", "x", "S", "e", "t">>

One == <<"1">>

Two == <<"2">>

TupleText == <<"(", "1", ",", "2", ")">>

\* a bare type name: cast() raises IndexError on it
BadText == <<"V", "e", "c">>

\* the methods the classes of the scenarios define
set_a_b == <<"s", "e", "t", "_", "a", "_", "b">>

load_model_data ==
    <<"l", "o", "a", "d", "_", "m", "o", "d", "e", "l", "_", "d", "a", "t", "a">>

load_fx_set_data ==
    <<"l", "o", "a", "d", "_", "f", "x", "_", "s", "e", "t", "_", "d", "a", "t", "a">>

load_configuration_data ==
    <<"l", "o", "a", "d", "_", "c", "o", "n", "f", "i", "g", "u", "r", "a", "t", "i",
      "o", "n", "_", "d", "a", "t", "a">>

Item(k, v) == <<Pair(k, v)>>

\* a main section: an optional include, then the section's own keys
MainSections(includes, keysets) ==
    { Section(DefaultSection, (IF inc = <<>> THEN <<>> ELSE Item(include_str, inc)) \o ks)
        : inc \in includes, ks \in keysets }

\* the non-main sections a file of the load scenarios may hold
OtherSections ==
    { <<>>,
      <<Section(SecModel, Item(KeyA, One)), Section(SecFxSet, Item(KeyB, One))>>,
      <<Section(SecModel, Item(KeyA, BadText)), Section(SecFxSet, Item(KeyB, One))>>,
      <<Section(SecFxSet, Item(KeyB, Two)),
        Section(SecModel, Item(KeyA, One) \o Item(KeyB, TupleText))>>,
      <<Section(SecFxSet, Item(KeyA, BadText))>> }

IncludedSections ==
    { <<>>,
      <<Section(SecModel, Item(KeyA, Two) \o Item(KeyConfig, One))>>,
      <<Section(SecFxSet, Item(KeyA, One))>> }

LoadBaseFiles ==
    { <<m>> \o rest :
        m \in MainSections({<<>>, OtherPath, GonePath},
                           {<<>>, Item(KeyA, One), Item(KeyA, One) \o Item(KeyB, Two)}),
        rest \in OtherSections }

LoadOtherFiles ==
    { <<m>> \o rest :
        m \in MainSections({<<>>},
                           {<<>>, Item(KeyA, Two), Item(KeyB, One) \o Item(KeyA, Two)}),
        rest \in IncludedSections }

DispatchBaseFiles ==
    { <<m>> :
        m \in MainSections({<<>>, OtherPath, GonePath},
                           { a \o b : a \in {<<>>, Item(KeyA, One), Item(KeyA, TupleText)},
                                      b \in {<<>>, Item(KeyB, Two), Item(KeyConfig, One)} }) }

DispatchOtherFiles ==
    { <<m>> :
        m \in MainSections({<<>>},
                           {Item(KeyA, Two), Item(KeyB, One) \o Item(KeyA, Two)}) }

\* a file system with the base file, and the other file if it exists, written at
\* time 1 and no .dat file yet
FileSystem(base, other, otherExists) ==
    [p \in AllPaths |->
        IF p = BasePath THEN File(1, base)
        ELSE IF p = OtherPath /\ otherExists THEN File(1, other)
        ELSE NoFile]

LoadClasses ==
    { PlainConfigurable,
      Class({set_a_b, load_model_data, load_configuration_data}, {}, TRUE),
      Class({set_a_b, load_model_data, load_configuration_data}, {load_model_data}, TRUE),
      Class({set_a_b, load_model_data, load_fx_set_data}, {}, TRUE) }

DispatchClasses ==
    { Class({set_a_b}, {}, TRUE), Class({set_a_b}, {}, FALSE), Class({}, {}, TRUE) }

(***************************************************************************)
(* Specifications                                                          *)
(***************************************************************************)

IdleCast ==
    /\ registry = <<>>
    /\ casters = <<>>
    /\ value = <<>>
    /\ output = Pending
    /\ IdleFn

SpecCast == InitCast /\ [][NextCast]_vars

\* loading: every file of the load scenarios, with classes that differ in their
\* section loaders
Init ==
    /\ IdleCast
    /\ fs \in { FileSystem(b, o, e) :
                  b \in LoadBaseFiles, o \in LoadOtherFiles, e \in BOOLEAN }
    /\ clock = 2
    /\ datWritable = TRUE
    /\ cacheFiles = <<>>
    /\ obj = NoObject
    /\ last = NoLast

Next ==
    \/ \E cls \in LoadClasses, path \in {BasePath, GonePath}, warn \in BOOLEAN :
           Construct(cls, path, FALSE, warn)
    \/ Load
    \/ Initialize

Spec == Init /\ [][Next]_vars

\* setter dispatch: files with a main section only, with classes that differ in
\* their setters and logger
InitDispatch ==
    /\ IdleCast
    /\ fs \in { FileSystem(b, o, e) :
                  b \in DispatchBaseFiles, o \in DispatchOtherFiles, e \in BOOLEAN }
    /\ clock = 2
    /\ datWritable = TRUE
    /\ cacheFiles = <<>>
    /\ obj = NoObject
    /\ last = NoLast

NextDispatch ==
    \/ \E cls \in DispatchClasses, auto \in BOOLEAN : Construct(cls, BasePath, auto, FALSE)
    \/ Load
    \/ Initialize
    \/ \E attr \in {KeyA, KeyB} : Pop(attr)
    \/ \E attr \in {KeyA, KeyB} : Get(attr)

SpecDispatch == InitDispatch /\ [][NextDispatch]_vars

\* the cache on its own: reads of two paths between modifications of their files,
\* with a .dat file that can or cannot be written
MaxClock == 6

CacheContents ==
    { <<Section(DefaultSection, Item(KeyA, One))>>,
      <<Section(DefaultSection, Item(KeyA, Two))>> }

\* the file at path is written (created, changed or touched) at the current time
WriteFile(path, data) ==
    /\ clock < MaxClock
    /\ fs' = [fs EXCEPT ![path] = File(clock, data)]
    /\ clock' = clock + 1
    /\ last' = [op |-> "write", key |-> path]
    /\ UNCHANGED <<datWritable, cacheFiles, obj>>
    /\ UNCHANGED castVars
    /\ UNCHANGED fnVars

\* cache.read(path, cls) of Configurable.__cache
Read(path) ==
    /\ clock < MaxClock
    /\ LET r == OSConfigurableCache_read(World(fs, clock, cacheFiles), path)
       IN  /\ fs' = r.w.fs
           /\ clock' = r.w.clock
           /\ cacheFiles' = r.w.cacheFiles
           /\ last' = [op |-> "read", key |-> path, ret |-> r.ret,
                       parses |-> r.w.parses, warnings |-> r.w.warnings,
                       cached |-> path \in DOMAIN cacheFiles,
                       pre |-> [op |-> last.op, key |-> last.key]]
    /\ UNCHANGED <<datWritable, obj>>
    /\ UNCHANGED castVars
    /\ UNCHANGED fnVars

InitCache ==
    /\ IdleCast
    /\ fs \in { FileSystem(b, o, e) :
                  b \in CacheContents, o \in CacheContents, e \in BOOLEAN }
    /\ clock = 2
    /\ datWritable \in BOOLEAN
    /\ cacheFiles = <<>>
    /\ obj = NoObject
    /\ last = [op |-> "none", key |-> <<>>]

NextCache ==
    \/ \E path \in {BasePath, OtherPath}, data \in CacheContents : WriteFile(path, data)
    \/ \E path \in {BasePath, OtherPath} : Read(path)

SpecCache == InitCache /\ [][NextCache]_vars

(***************************************************************************)
(* Properties                                                              *)
(***************************************************************************)

\* the file the object under observation loads
OwnFile == fs[obj.path]

\* the items of the main section of the file at path, none when the file or the
\* section is missing
MainItems(path) ==
    IF fs[path].exists /\ has_section(Reader(fs[path].data), DefaultSection)
    THEN items_of(Reader(fs[path].data), DefaultSection)
    ELSE <<>>

OwnItems == SelectSeq(MainItems(obj.path), LAMBDA e : e.k # include_str)

IncludePath == dict_get(MainItems(obj.path), include_str, <<>>)

IncludedItems == IF IncludePath = <<>> THEN <<>> ELSE MainItems(IncludePath)

\* the last operation was a load (by the constructor or by load()) of an existing
\* file
LoadedFile ==
    /\ obj # NoObject
    /\ last.op \in {"__init__", "load"}
    /\ OwnFile.exists

\* ... and it returned
Loaded == LoadedFile /\ last.exc = NoExc

\* C1: when load() processes a main section that declares __include__, the
\* configuration mapping it leaves holds every key of the included file's main
\* section and every own key except __include__, each key once, and a key of both
\* files has the including file's value.
C1_IncludeMerge ==
    (Loaded /\ IncludePath # <<>>) =>
        /\ dict_keys(obj.configuration) = dict_keys(IncludedItems) \cup dict_keys(OwnItems)
        /\ \A i, j \in 1..Len(obj.configuration) :
               obj.configuration[i].k = obj.configuration[j].k => i = j
        /\ \A k \in dict_keys(OwnItems) :
               dict_get(obj.configuration, k, NoneV)
                   = cast(InternalCasters, dict_get(OwnItems, k, <<>>))
        /\ \A k \in dict_keys(IncludedItems) \ dict_keys(OwnItems) :
               dict_get(obj.configuration, k, NoneV)
                   = cast(InternalCasters, dict_get(IncludedItems, k, <<>>))

\* a base file defining aB = 1 includes a file defining aB = 2 and b = 1, and the
\* load has returned
C1_Witness ==
    /\ Loaded
    /\ IncludePath = OtherPath
    /\ dict_get(OwnItems, KeyA, <<>>) = One
    /\ dict_get(IncludedItems, KeyA, <<>>) = Two
    /\ dict_get(IncludedItems, KeyB, <<>>) = One
    /\ ~dict_has(OwnItems, KeyB)
    /\ dict_get(obj.configuration, KeyA, NoneV) = IntV(1)
    /\ dict_get(obj.configuration, KeyB, NoneV) = IntV(1)

\* the sections of the loaded file other than the main section, in file order
OtherOwnSections ==
    IF OwnFile.exists
    THEN SelectSeq(OwnFile.data, LAMBDA sec : sec.name # DefaultSection)
    ELSE <<>>

\* the loader method the naming convention gives a section of the scenarios
LoaderOf(name) ==
    CASE name = SecModel -> load_model_data
      [] name = SecFxSet -> load_fx_set_data
      [] OTHER -> load_configuration_data

\* the key/value mapping of a section with its values cast
CastItems(items) ==
    dict_of([i \in 1..Len(items) |->
                Pair(items[i].k, cast(InternalCasters, items[i].v))])

\* what the owning object receives for a section: its loader with the cast
\* mapping, or, with no such loader, only the general load_data
HandOver(sec) ==
    IF LoaderOf(sec.name) \in obj.cls.methods
    THEN Call("self", LoaderOf(sec.name), <<CastItems(sec.items)>>)
    ELSE Call("self", <<"l", "o", "a", "d", "_", "d", "a", "t", "a">>,
              <<sec.name, "self.__prepare_data">>)

\* the calls the last operation made on the object under observation
SelfCalls == SelectSeq(last.calls, LAMBDA c : c.self = "self")

HasLoader(sec) == LoaderOf(sec.name) \in obj.cls.methods

\* C6: load() hands every section other than the main section to the owning
\* object exactly once, in file order: to load_<snake_case(section)>_data with the
\* cast key/value mapping when the object defines it, otherwise to no section
\* loader (with a warning exactly when config warnings are enabled); the main
\* section is never handed to a section loader.
C6_SectionsHandedOnce ==
    Loaded =>
        /\ SelfCalls = [i \in 1..Len(OtherOwnSections) |-> HandOver(OtherOwnSections[i])]
        /\ \A i \in 1..Len(SelfCalls) : SelfCalls[i].method # load_configuration_data
        /\ (obj.want_config_warnings
              /\ \E i \in 1..Len(OtherOwnSections) : ~HasLoader(OtherOwnSections[i]))
               => InSeq("Section loader does not exist", last.warnings)
        /\ ~obj.want_config_warnings
               => ~InSeq("Section loader does not exist", last.warnings)

\* a file with the sections FxSet and Model has been loaded by an object that
\* defines load_fx_set_data, load_model_data and no other loader, and by one that
\* defines load_configuration_data
C6_Witness ==
    /\ Loaded
    /\ Len(OtherOwnSections) = 2
    /\ OtherOwnSections[1].name = SecFxSet
    /\ obj.cls.methods = {set_a_b, load_model_data, load_fx_set_data}
    /\ Len(SelfCalls) = 2
    /\ SelfCalls[1].method = load_fx_set_data
    /\ SelfCalls[2].method = load_model_data
    /\ SelfCalls[2].args = <<<<Pair(KeyA, IntV(1)),
                               Pair(KeyB, TupleV(<<IntV(1), IntV(2)>>))>>>>

\* the last operation was a load of a path with no file
LoadedMissing ==
    /\ obj # NoObject
    /\ last.op \in {"__init__", "load"}
    /\ ~OwnFile.exists

\* C5: load() of a path whose file does not exist raises nothing, logs a
\* warning, leaves the configuration an empty mapping and calls no section
\* loader; a later initialize() on that object calls no setter.
C5_MissingFile ==
    /\ LoadedMissing =>
           /\ last.exc = NoExc
           /\ InSeq("Failed to load ini file", last.warnings)
           /\ obj.configuration = <<>>
           /\ last.calls = <<>>
    /\ (obj # NoObject /\ last.op = "initialize" /\ ~OwnFile.exists) =>
           /\ last.exc = NoExc
           /\ last.calls = <<>>

\* the sections of the included file other than its main section
IncludedOtherSections ==
    IF IncludePath # <<>> /\ fs[IncludePath].exists
    THEN SelectSeq(fs[IncludePath].data, LAMBDA sec : sec.name # DefaultSection)
    ELSE <<>>

\* the items the loaded file itself gives the section of that name
OwnSectionItems(name) ==
    IF has_section(Reader(OwnFile.data), name)
    THEN items_of(Reader(OwnFile.data), name)
    ELSE <<>>

\* C7: when a config file includes another, every non-main section of the
\* included file reaches the owning object's section loader, merged with the
\* including file's section of the same name (whose keys win) when both define
\* it, or on its own when only the included file defines it.
C7_IncludedSectionsReachOwner ==
    Loaded =>
        \A i \in 1..Len(IncludedOtherSections) :
            LET sec == IncludedOtherSections[i]
                merged == sec.items \o OwnSectionItems(sec.name)
            IN  HasLoader(sec) =>
                    InSeq(Call("self", LoaderOf(sec.name), <<CastItems(merged)>>),
                          SelfCalls)

\* a section none of whose values fails to cast and whose loader does not fail
GoodSection(sec) ==
    /\ \A i \in 1..Len(sec.items) : ~IsRaise(cast(InternalCasters, sec.items[i].v))
    /\ LoaderOf(sec.name) \notin obj.cls.failing

\* C8: a failure while one section is processed during load() (a value that
\* cannot be cast, a section loader that fails) aborts only that section: every
\* other section of the file is still handed to its loader and the main-section
\* keys are in the configuration mapping when load() returns.
C8_SectionFailureIsLocal ==
    LoadedFile =>
        /\ last.exc = NoExc
        /\ \A i \in 1..Len(OtherOwnSections) :
               GoodSection(OtherOwnSections[i])
                   => InSeq(HandOver(OtherOwnSections[i]), SelfCalls)
        /\ dict_keys(OwnItems) \subseteq dict_keys(obj.configuration)

\* the setter the naming convention gives a key of the scenarios; only set_a_b is
\* defined by any class
SetterOf(key) == IF key = KeyA THEN set_a_b ELSE <<"s", "e", "t", "_">> \o key

HasSetter(key) == SetterOf(key) \in obj.cls.methods

\* one setter call per key of the mapping that has a setter, in the mapping's
\* order, a tuple handed over as positional arguments
ExpectedSetterCalls(mapping) ==
    LET withSetter == SelectSeq(mapping, LAMBDA e : HasSetter(e.k))
    IN  [i \in 1..Len(withSetter) |->
            Call("self", SetterOf(withSetter[i].k),
                 IF IsTuple(withSetter[i].v) THEN withSetter[i].v.tuple
                 ELSE <<withSetter[i].v>>)]

Initialized == obj # NoObject /\ last.op = "initialize"

\* C2: every cast value of the configuration mapping is consumed at most once:
\* initialize() calls set_<snake_case(key)> exactly once for each key still in
\* the mapping (with the cast value, or the elements of a tuple as positional
\* arguments), a key removed by pop() is not dispatched while a key read by get()
\* is, and after initialize() the mapping is empty, so that a repeated
\* initialize() calls no setter.  (Mappings on which initialize() fails for want
\* of a setter are the subject of C3 and left out here.)
C2_SingleConsumption ==
    /\ (Initialized /\ ~(obj.auto_configure /\ dict_has(last.pre, KeyConfig))) =>
           /\ SelfCalls = ExpectedSetterCalls(last.pre)
           /\ obj.configuration = <<>>
    /\ (obj # NoObject /\ last.op = "pop") =>
           /\ ~dict_has(obj.configuration, last.key)
           /\ obj.configuration = dict_without(last.pre, last.key)
    /\ (obj # NoObject /\ last.op = "get") => obj.configuration = last.pre

\* C3: initialize() never raises because a key has no matching setter: without
\* auto_configure the value is dropped, no attribute is set and a warning is
\* logged; with auto_configure the value becomes the attribute named by the key;
\* either way every other key is still dispatched.  (Stated for the classes on
\* which a setter can be dispatched at all.)
C3_MissingSetterIsHarmless ==
    (Initialized /\ obj.cls.hasNotify) =>
        /\ last.exc = NoExc
        /\ \A i \in 1..Len(last.pre) :
               LET e == last.pre[i]
               IN  ~HasSetter(e.k) =>
                       IF obj.auto_configure
                       THEN dict_get(obj.attrs, e.k, NoneV) = e.v
                       ELSE /\ ~dict_has(obj.attrs, e.k)
                            /\ InSeq("does not implement setter", last.warnings)
        /\ SelfCalls = ExpectedSetterCalls(last.pre)

\* C4: over any sequence of reads and modifications of a path, a read re-parses
\* the source exactly when nothing is cached for the path or the file is newer
\* than the cached parse, the parse returned is that of the file's content as of
\* its latest modification, and without a modification the cached parse is
\* returned and the file is not read again.
C4_CacheFollowsFile ==
    (last.op = "read" /\ fs[last.key].exists) =>
        /\ last.ret = Reader(fs[last.key].data)
        /\ ~last.cached => last.parses # <<>>
        /\ (last.pre.op = "read" /\ last.pre.key = last.key) => last.parses = <<>>

\* a cast has been made
CastDone == output # Pending

\* C9: cast(s) returns a value and never raises, whatever the string s: a string
\* that is no well-formed literal degrades to a raw string.
C9_CastNeverRaises == CastDone => ~IsRaise(output)

\* int(s) or float(s) succeeds
Numeric(s) == int_ok(s) \/ float_ok(s)

\* the place in the list of the first caster that accepts w, every caster before
\* it having answered that it does not; 0 when there is no such caster
FirstAccepting(cs, w) ==
    LET firsts == {i \in 1..Len(cs) :
                      /\ accepted(cs[i], w) = Accepted(TRUE)
                      /\ \A j \in 1..(i - 1) : accepted(cs[j], w) = Accepted(FALSE)}
    IN  IF firsts = {} THEN 0 ELSE CHOOSE i \in firsts : TRUE

\* C10: for any caster list in registration order and any non-numeric string s,
\* cast(s) is the result of the first caster of the list whose accepted(s) is
\* true, and of no later one.
C10_FirstAcceptingCasterWins ==
    (CastDone /\ ~Numeric(value)) =>
        LET w == strip(value)
            i == FirstAccepting(casters, w)
        IN  i # 0 => output = call_caster(casters, casters[i], w)

\* 'None' has been cast with a second caster for it registered before NoneCast,
\* and the result is that caster's
C10_Witness ==
    /\ CastDone
    /\ value = <<"N", "o", "n", "e">>
    /\ casters = <<AmbiguousNoneCast>> \o InternalCasters
    /\ output = BoolV(FALSE)

\* no caster of the list answers that it accepts w
NoneAccepts(cs, w) == \A i \in 1..Len(cs) : accepted(cs[i], w) # Accepted(TRUE)

\* C11: if the string s is not numeric and no registered caster accepts it,
\* cast(s) returns s unchanged as a string.
C11_UnmatchedStaysString ==
    (CastDone /\ ~Numeric(value) /\ NoneAccepts(casters, strip(value)))
        => output = StrV(value)

\* the n-component constructors of the two families
Constructors(type_name) ==
    IF type_name = <<"V", "e", "c">> THEN <<"Vec2", "Vec3", "Vec4">>
    ELSE <<"Point2", "Point3", "Point4">>

\* w is the literal type_name(...)
IsLiteralOf(type_name, w) ==
    /\ Len(w) >= Len(type_name) + 2
    /\ prefix(w, Len(type_name)) = type_name
    /\ w[Len(type_name) + 1] = "("
    /\ w[Len(w)] = ")"

\* the comma-separated arguments of the literal type_name(...)
LiteralArgs(type_name, w) == split(slice(w, Len(type_name) + 1, 1), ",")

\* the internal casters are installed in the bridge
Installed == \E i \in 1..Len(casters) : casters[i] = PandaVectorCast

\* C14: a Vec(...) or Point(...) literal with n comma-separated numeric
\* arguments, n in 2..4, is cast with the n-component constructor of its family,
\* the arguments becoming the components in order; a literal with any other
\* number of arguments selects none of these constructors.
C14_ArityDispatch ==
    (CastDone /\ Installed) =>
        \A t \in { <<"V", "e", "c">>, <<"P", "o", "i", "n", "t">> } :
            IsLiteralOf(t, strip(value)) =>
                LET args == LiteralArgs(t, strip(value))
                    n == IF slice(strip(value), Len(t) + 1, 1) = <<>> THEN 0 ELSE Len(args)
                IN  /\ (n \in 2..4 /\ \A i \in 1..n : Numeric(args[i])) =>
                            output = CtorV(Constructors(t)[n - 1],
                                           [i \in 1..n |-> to_float(args[i])])
                    /\ n \notin 2..4 =>
                            ~("cls" \in DOMAIN output
                                 /\ InSeq(output.cls, Constructors(t)))

(***************************************************************************)
(* framework/pcast.py: the tokenizing cast                                 *)
(***************************************************************************)

DictV(pairs) == [dict |-> pairs]

\* a token of tokenize.generate_tokens: its type and its string
Token(type, string) == [type |-> type, string |-> string]

IsNameStart(c) == IsUpper(c) \/ (\E i \in 1..26 : LowerChars[i] = c) \/ c = "_"

IsNameChar(c) == IsNameStart(c) \/ IsDigit(c)

\* the end of the run of digits of the text that starts at pos
RECURSIVE NumberEnd(_, _)
NumberEnd(txt, pos) ==
    IF pos <= Len(txt) /\ IsDigit(txt[pos]) THEN NumberEnd(txt, pos + 1) ELSE pos

\* the end of the name of the text that starts at pos
RECURSIVE NameEnd(_, _)
NameEnd(txt, pos) ==
    IF pos <= Len(txt) /\ IsNameChar(txt[pos]) THEN NameEnd(txt, pos + 1) ELSE pos

\* the place of the next c from pos on, 0 when there is none
RECURSIVE FindChar(_, _, _)
FindChar(txt, pos, c) ==
    IF pos > Len(txt) THEN 0
    ELSE IF txt[pos] = c THEN pos
    ELSE FindChar(txt, pos + 1, c)

Span(txt, a, b) == SubSeq(txt, a, b - 1)

\* tokenize.generate_tokens over a text of one line without line end: the
\* tokens, and what ends them: with brackets left open (or closed too often)
\* the tokenizer raises TokenError at the end of the input, otherwise it adds
\* NEWLINE and ENDMARKER and the generator is exhausted
RECURSIVE scan_tokens(_, _, _, _)
scan_tokens(txt, pos, parenlev, toks) ==
    IF pos > Len(txt)
    THEN IF parenlev # 0
         THEN [toks |-> toks, end |-> "TokenError"]
         ELSE [toks |-> toks \o <<Token("NEWLINE", <<>>), Token("ENDMARKER", <<>>)>>,
               end |-> "StopIteration"]
    ELSE IF IsSpace(txt[pos]) THEN scan_tokens(txt, pos + 1, parenlev, toks)
    ELSE IF IsDigit(txt[pos])
    THEN Only({ scan_tokens(txt, e, parenlev,
                            Append(toks, Token("NUMBER", Span(txt, pos, e))))
                : e \in {NumberEnd(txt, pos)} })
    ELSE IF IsNameStart(txt[pos])
    THEN Only({ scan_tokens(txt, e, parenlev,
                            Append(toks, Token("NAME", Span(txt, pos, e))))
                : e \in {NameEnd(txt, pos)} })
    ELSE IF txt[pos] = "'"
    THEN Only({ IF q = 0
                THEN scan_tokens(txt, pos + 1, parenlev,
                                 Append(toks, Token("ERRORTOKEN", <<"'">>)))
                ELSE scan_tokens(txt, q + 1, parenlev,
                                 Append(toks, Token("STRING", Span(txt, pos, q + 1))))
                : q \in {FindChar(txt, pos + 1, "'")} })
    ELSE scan_tokens(txt, pos + 1,
                     IF txt[pos] \in {"(", "[", "{"} THEN parenlev + 1
                     ELSE IF txt[pos] \in {")", "]", "}"} THEN parenlev - 1
                     ELSE parenlev,
                     Append(toks, Token("OP", <<txt[pos]>>)))

generate_tokens(txt) == scan_tokens(txt, 1, 0, <<>>)

\* next(src) after i tokens have been taken
next(src, i) ==
    IF i < Len(src.toks) THEN [token |-> src.toks[i + 1], pos |-> i + 1]
    ELSE Raise(src.end)

\* a dictionary key must be hashable; dictionaries and lists are not
Hashable(v) == ~("dict" \in DOMAIN v \/ "list" \in DOMAIN v)

\* what a parsing function gives back: its value and the tokens taken so far
Parsed(out, pos) == [out |-> out, pos |-> pos]

RECURSIVE pcast__cast(_, _, _)
RECURSIVE pcast__cast_dict_loop(_, _, _, _)

\* the while loop of __cast_dict with token the current token
pcast__cast_dict_loop(src, token, pos, out) ==
    IF token.string = <<"}">> THEN Parsed(DictV(out), pos)
    ELSE Only({
        IF IsRaise(key) THEN key
        ELSE Only({
            IF IsRaise(colon) THEN colon
            ELSE IF colon.token.string # <<":">> THEN Raise("SyntaxError")
            ELSE Only({
                IF IsRaise(first) THEN first
                ELSE Only({
                    IF IsRaise(val) THEN val
                    ELSE IF ~Hashable(key.out) THEN Raise("TypeError")
                    ELSE Only({
                        IF IsRaise(after) THEN after
                        ELSE IF after.token.string = <<",">>
                        THEN Only({ IF IsRaise(more) THEN more
                                    ELSE pcast__cast_dict_loop(
                                             src, more.token, more.pos,
                                             dict_set(out, key.out, val.out))
                                    : more \in {next(src, after.pos)} })
                        ELSE pcast__cast_dict_loop(src, after.token, after.pos,
                                                   dict_set(out, key.out, val.out))
                        : after \in {next(src, val.pos)} })
                    : val \in {pcast__cast(src, first.token, first.pos)} })
                : first \in {next(src, colon.pos)} })
            : colon \in {next(src, key.pos)} })
        : key \in {pcast__cast(src, token, pos)} })

\* __cast_dict: None unless the token opens a dictionary
pcast__cast_dict(src, token, pos) ==
    IF token.string = <<"{">>
    THEN Only({ IF IsRaise(n) THEN n
                ELSE pcast__cast_dict_loop(src, n.token, n.pos, <<>>)
                : n \in {next(src, pos)} })
    ELSE Parsed(NoneV, pos)

\* __cast: after __cast_dict it calls __cast_kist, a name the module does not
\* define, so that every token that opens no dictionary ends in NameError
pcast__cast(src, token, pos) ==
    Only({ IF IsRaise(d) THEN d
           ELSE IF d.out # NoneV THEN d
           ELSE Raise("NameError")
           : d \in {pcast__cast_dict(src, token, pos)} })

\* the for loop of cast over the tokens that remain
RECURSIVE pcast_rest(_, _)
pcast_rest(src, pos) ==
    IF pos >= Len(src.toks)
    THEN IF src.end = "StopIteration" THEN [done |-> TRUE] ELSE Raise(src.end)
    ELSE IF src.toks[pos + 1].type \notin {"NEWLINE", "ENDMARKER"}
    THEN Raise("SyntaxError")
    ELSE pcast_rest(src, pos + 1)

\* what cast returns, and the errors it logged
Returned(ret, errors) == [ret |-> ret, errors |-> errors]

\* the except clauses of cast
pcast_except(exc) ==
    CASE exc = "ValueError" -> Returned(NoneV, <<"Value Error (pcast)">>)
      [] exc = "SyntaxError" -> Returned(NoneV, <<"Syntax Error (pcast)">>)
      [] exc = "StopIteration" -> Raise("SyntaxError")
      [] exc = "TokenError" -> Returned(NoneV, <<"Syntax Error (pcast)">>)
      [] OTHER -> Raise(exc)

\* pcast.cast(txt) of a string
pcast_cast(txt) ==
    IF strip(txt) = <<>> THEN Returned(NoneV, <<>>)
    ELSE Only({
        Only({ IF IsRaise(first) THEN pcast_except(first.raise)
               ELSE Only({ IF IsRaise(out) THEN pcast_except(out.raise)
                           ELSE Only({ IF IsRaise(rest) THEN pcast_except(rest.raise)
                                       ELSE Returned(out.out, <<>>)
                                       : rest \in {pcast_rest(src, out.pos)} })
                           : out \in {pcast__cast(src, first.token, first.pos)} })
               : first \in {next(src, 0)} })
        : src \in {generate_tokens(strip(txt))} })

\* the pieces a text handed to pcast.cast is put together from, at most
MaxPieces == 4

Pieces ==
    { <<"{">>, <<"}">>, <<"{", "}">>, <<":">>, <<",">>, <<"[">>, <<"]">>, <<"1">>,
      <<"a">>, <<" ">> }

RECURSIVE Concat(_)
Concat(parts) == IF parts = <<>> THEN <<>> ELSE parts[1] \o Concat(Tail(parts))

PcastTexts == { Concat(ps) : ps \in UNION { [1..n -> Pieces] : n \in 0..MaxPieces } }

\* cast(txt) of pcast.py
PcastCast(txt) ==
    /\ result = Pending
    /\ given' = [fn |-> "pcast.cast", txt |-> txt]
    /\ result' = pcast_cast(txt)
    /\ UNCHANGED castVars
    /\ UNCHANGED cfgVars


\* the brackets of the text that are left open, counted over all three kinds
RECURSIVE OpenBrackets(_)
OpenBrackets(txt) ==
    IF txt = <<>> THEN 0
    ELSE OpenBrackets(SubSeq(txt, 1, Len(txt) - 1))
           + (IF txt[Len(txt)] \in {"(", "[", "{"} THEN 1
              ELSE IF txt[Len(txt)] \in {")", "]", "}"} THEN -1
              ELSE 0)

PcastDone == result # Pending /\ given.fn = "pcast.cast"

\* C13: pcast's cast(txt) returns None and propagates no exception for every
\* malformed input string; stated for the truncated ones, those that leave a
\* bracket or a dictionary open.
C13_MalformedGivesNone ==
    (PcastDone /\ OpenBrackets(given.txt) > 0) =>
        /\ ~IsRaise(result)
        /\ result.ret = NoneV

(***************************************************************************)
(* pcast.seralize: str(data) with the class names shortened                *)
(***************************************************************************)

\* the decimal digits of a natural number
RECURSIVE NatText(_)
NatText(n) ==
    IF n < 10 THEN <<DigitChars[n + 1]>>
    ELSE NatText(n \div 10) \o <<DigitChars[(n % 10) + 1]>>

\* str() of an int
IntText(n) == IF n < 0 THEN <<"-">> \o NatText(-n) ELSE NatText(n)

RECURSIVE Pow10(_)
Pow10(k) == IF k = 0 THEN 1 ELSE 10 * Pow10(k - 1)

\* the digits of n, with zeros in front up to the width k
RECURSIVE Padded(_, _)
Padded(n, k) == IF k = 0 THEN <<>> ELSE Padded(n \div 10, k - 1) \o <<DigitChars[(n % 10) + 1]>>

\* repr() of the float num / 10^scale
FloatText(num, scale) ==
    LET a == IF num < 0 THEN -num ELSE num
    IN  (IF num < 0 THEN <<"-">> ELSE <<>>)
          \o NatText(a \div Pow10(scale)) \o <<".">>
          \o (IF scale = 0 THEN <<"0">> ELSE Padded(a % Pow10(scale), scale))

RECURSIVE JoinWith(_, _)
JoinWith(parts, sep) ==
    IF parts = <<>> THEN <<>>
    ELSE IF Len(parts) = 1 THEN parts[1]
    ELSE parts[1] \o sep \o JoinWith(Tail(parts), sep)

\* the name of a panda3d.core class as text
ClassText(cls) ==
    CASE cls = "Vec2" -> <<"V", "e", "c", "2">>
      [] cls = "Vec3" -> <<"V", "e", "c", "3">>
      [] cls = "Vec4" -> <<"V", "e", "c", "4">>
      [] cls = "Point2" -> <<"P", "o", "i", "n", "t", "2">>
      [] cls = "Point3" -> <<"P", "o", "i", "n", "t", "3">>
      [] cls = "Point4" -> <<"P", "o", "i", "n", "t", "4">>

\* repr() of a typed value.  The panda3d.core classes are taken to print as
\* seralize expects them to: the class name and the components in brackets
RECURSIVE repr(_)
repr(v) ==
    CASE "int" \in DOMAIN v -> IntText(v.int)
      [] "fnum" \in DOMAIN v -> FloatText(v.fnum, v.fscale)
      [] "bool" \in DOMAIN v ->
             IF v.bool THEN <<"T", "r", "u", "e">> ELSE <<"F", "a", "l", "s", "e">>
      [] "none" \in DOMAIN v -> <<"N", "o", "n", "e">>
      [] "str" \in DOMAIN v -> <<"'">> \o v.str \o <<"'">>
      [] "list" \in DOMAIN v ->
             <<"[">> \o JoinWith([i \in 1..Len(v.list) |-> repr(v.list[i])], <<",", " ">>)
                 \o <<"]">>
      [] "tuple" \in DOMAIN v ->
             <<"(">> \o JoinWith([i \in 1..Len(v.tuple) |-> repr(v.tuple[i])], <<",", " ">>)
                 \o (IF Len(v.tuple) = 1 THEN <<",">> ELSE <<>>) \o <<")">>
      [] "dict" \in DOMAIN v ->
             <<"{">> \o JoinWith([i \in 1..Len(v.dict) |->
                                     repr(v.dict[i].k) \o <<":", " ">> \o repr(v.dict[i].v)],
                                 <<",", " ">>)
                 \o <<"}">>
      [] "cls" \in DOMAIN v ->
             ClassText(v.cls) \o <<"(">>
                 \o JoinWith([i \in 1..Len(v.args) |-> repr(v.args[i])], <<",", " ">>)
                 \o <<")">>

\* str(): a string is itself
str(v) == IF "str" \in DOMAIN v THEN v.str ELSE repr(v)

\* txt.replace(old, new), from the left
RECURSIVE replace(_, _, _)
replace(txt, old, new) ==
    IF Len(txt) < Len(old) THEN txt
    ELSE IF prefix(txt, Len(old)) = old
    THEN new \o replace(SubSeq(txt, Len(old) + 1, Len(txt)), old, new)
    ELSE <<txt[1]>> \o replace(Tail(txt), old, new)

replace_mapping ==
    << Pair(<<"V", "e", "c", "2">>, <<"V", "e", "c">>),
       Pair(<<"V", "e", "c", "3">>, <<"V", "e", "c">>),
       Pair(<<"V", "e", "c", "4">>, <<"V", "e", "c">>),
       Pair(<<"P", "o", "i", "n", "t", "2">>, <<"P", "o", "i", "n", "t">>),
       Pair(<<"P", "o", "i", "n", "t", "3">>, <<"P", "o", "i", "n", "t">>),
       Pair(<<"P", "o", "i", "n", "t", "4">>, <<"P", "o", "i", "n", "t">>) >>

RECURSIVE seralize_loop(_, _)
seralize_loop(txt, i) ==
    IF i > Len(replace_mapping) THEN txt
    ELSE seralize_loop(replace(txt, replace_mapping[i].k, replace_mapping[i].v), i + 1)

\* seralize(data)
seralize(data) == seralize_loop(str(data), 1)

\* the elements a list, tuple or dictionary handed to seralize holds at most
MaxElems == 2

Scalars ==
    { IntV(1), IntV(-12), FloatV(15, 1), FloatV(2, 0), BoolV(TRUE), BoolV(FALSE), NoneV,
      StrV(<<"a">>), StrV(<<"a", " ", "b">>) }

ScalarLists == UNION { [1..n -> Scalars] : n \in 0..MaxElems }

Floats == { FloatV(1, 0), FloatV(25, 1) }

\* representative values of each variant
TypedValues ==
    Scalars
      \cup { ListV(vs) : vs \in ScalarLists }
      \cup { TupleV(vs) : vs \in ScalarLists }
      \cup { ListV(<<ListV(<<a>>), b>>) : a, b \in {IntV(1), StrV(<<"a">>)} }
      \cup { DictV(<<Pair(k, v)>>) : k \in {IntV(1), StrV(<<"a">>)}, v \in Scalars }
      \cup { CtorV(Constructors(t)[Len(xs) - 1], xs) :
                 t \in { <<"V", "e", "c">>, <<"P", "o", "i", "n", "t">> },
                 xs \in UNION { [1..n -> Floats] : n \in 2..4 } }

\* seralize(data)
Seralize(data) ==
    /\ result = Pending
    /\ given' = [fn |-> "seralize", data |-> data]
    /\ result' = [txt |-> seralize(data)]
    /\ UNCHANGED castVars
    /\ UNCHANGED cfgVars

\* cast(txt) of cast.py, with the internal casters, on the text seralize gave
CastSeralized ==
    /\ result # Pending
    /\ given.fn = "seralize"
    /\ DOMAIN result = {"txt"}
    /\ result' = [txt |-> result.txt, back |-> cast(InternalCasters, result.txt)]
    /\ UNCHANGED given
    /\ UNCHANGED castVars
    /\ UNCHANGED cfgVars

InitPcast ==
    /\ IdleCast
    /\ IdleCfg

NextPcast ==
    \/ \E txt \in PcastTexts : PcastCast(txt)
    \/ \E data \in TypedValues : Seralize(data)
    \/ CastSeralized

SpecPcast == InitPcast /\ [][NextPcast]_vars

RoundTripDone ==
    result # Pending /\ given.fn = "seralize" /\ "back" \in DOMAIN result

\* C12: cast round trip: for every typed value v of each variant (boolean, none,
\* integer, float, string, list, tuple, dict, vector/point), casting the textual
\* form of v gives back v.
C12_CastRoundTrip == RoundTripDone => result.back = given.data

(***************************************************************************)
(* Export steps (resource.py)                                              *)
(***************************************************************************)

\* the fields of an ExportProperty
ExportStep(output_filename, converter, input_filename, options) ==
    [output_filename |-> output_filename, converter |-> converter,
     input_filename |-> input_filename, options |-> options]

\* the end of the run of characters [^\t\n\r\x0c\x0b \(] that starts at pos
RECURSIVE FilenameEnd(_, _)
FilenameEnd(txt, pos) ==
    IF pos <= Len(txt) /\ ~IsSpace(txt[pos]) /\ txt[pos] # "("
    THEN FilenameEnd(txt, pos + 1) ELSE pos

\* the end of the run of characters [^\(] that starts at pos
RECURSIVE ValueEnd(_, _)
ValueEnd(txt, pos) ==
    IF pos <= Len(txt) /\ txt[pos] # "(" THEN ValueEnd(txt, pos + 1) ELSE pos

\* the place of the last c of txt[a..b], 0 when there is none
RECURSIVE FindLast(_, _, _, _)
FindLast(txt, a, b, c) ==
    IF b < a THEN 0
    ELSE IF txt[b] = c THEN b
    ELSE FindLast(txt, a, b - 1, c)

NoMatch == [matched |-> FALSE]

Match(groups) == [matched |-> TRUE, groups |-> groups]

\* FILENAME_RE.match(data), '^\s*([^\t\n\r\x0c\x0b \(]+)\s*(.*)$' on one line
FILENAME_RE(data) ==
    LET s == lstrip(data)
        e == FilenameEnd(s, 1)
    IN  IF e = 1 THEN NoMatch
        ELSE Match(<<SubSeq(s, 1, e - 1), lstrip(SubSeq(s, e, Len(s)))>>)

\* OPTION_RE.match(rest), '^\s*(?:(\w+)\(([^\(]*)\))\s*(.*)$' on one line: the
\* value is greedy, so it runs to the last ')' before the next '('
OPTION_RE(rest) ==
    LET s == lstrip(rest)
        e == NameEnd(s, 1)
        close == FindLast(s, e + 1, ValueEnd(s, e + 1) - 1, ")")
    IN  IF e = 1 \/ e > Len(s) \/ s[e] # "(" \/ close = 0 THEN NoMatch
        ELSE Match(<<SubSeq(s, 1, e - 1), SubSeq(s, e + 1, close - 1),
                     lstrip(SubSeq(s, close + 1, Len(s)))>>)

\* the call does not come back: its loop goes round without changing anything
NeverReturns == [hangs |-> TRUE]

Hangs(r) == "hangs" \in DOMAIN r

\* what a method left behind: the object and the errors it logged
Left(self, errors) == [self |-> self, errors |-> errors]

\* ExportProperty.parse, the loop 'while rest': the statements that take the
\* option are indented under the 'continue' of the no-match branch, so a
\* matching rest is left as it was and is matched again
parse_loop(self, rest) ==
    IF rest = <<>> THEN Left(self, 0)
    ELSE IF ~OPTION_RE(rest).matched THEN Left(self, 1)
    ELSE NeverReturns

\* ExportProperty.parse(data)
parse(self, data) ==
    LET m == FILENAME_RE(data)
    IN  IF ~m.matched THEN Left(self, 1)
        ELSE parse_loop([self EXCEPT !.input_filename = StrV(m.groups[1])],
                        m.groups[2])

\* ExportProperty(key, data, converter)
ExportProperty(key, data, converter) ==
    LET self == ExportStep(key, converter, StrV(<<>>), <<>>)
    IN  IF data # <<>> THEN parse(self, data) ELSE Left(self, 0)

\* the options argument of a method: a dictionary or None; true when it holds an entry
Truthy(o) == "dict" \in DOMAIN o /\ o.dict # <<>>

\* ExportProperty.generate_post_egg2bam(egg2bam_options)
generate_post_egg2bam(self, egg2bam_options) ==
    LET binary == ExportProperty(NoneV, <<>>, "Egg2Bam").self
    IN  [binary EXCEPT !.input_filename = self.output_filename,
                       !.output_filename = self.output_filename,
                       !.options = IF Truthy(egg2bam_options)
                                   THEN egg2bam_options.dict ELSE @]

\* ExportProperty.generate_post_bam2pz()
generate_post_bam2pz(self) ==
    LET compress == ExportProperty(NoneV, <<>>, "Bam2Pz").self
    IN  [compress EXCEPT !.input_filename = self.output_filename,
                         !.output_filename = self.output_filename]

\* ExportProperty.generate_post_egg2bampz(egg2bam_options): the second step is
\* asked of binary.generate_post_egg2bampz(), the method itself, which asks the
\* same of its own binary step, and so on until the interpreter's recursion
\* limit ends the calls
generate_post_egg2bampz(self, egg2bam_options) ==
    LET binary == generate_post_egg2bam(self, egg2bam_options)
    IN  Raise("RecursionError")

(***************************************************************************)
(* The export lines and steps the methods are tried on                     *)
(***************************************************************************)

\* the options a line may hold at most
MaxOptions == 2

Filenames == { <<"m">>, <<"m", ".", "e">> }

OptionNames == { <<"a">>, <<"b">> }

OptionValues == { <<"1">>, <<"t", "r", "u", "e">> }

\* an option as the line writes it: '-name(value)', or 'name(value)' without the dash
Option(dash, name, val) == [dash |-> dash, name |-> name, val |-> val]

OptionText(o) == o.dash \o o.name \o <<"(">> \o o.val \o <<")">>

Options == { Option(d, n, v) : d \in { <<"-">>, <<>> }, n \in OptionNames, v \in OptionValues }

OptionLists == UNION { [1..k -> Options] : k \in 0..MaxOptions }

RECURSIVE OptionsText(_)
OptionsText(os) ==
    IF os = <<>> THEN <<>> ELSE <<" ">> \o OptionText(os[1]) \o OptionsText(Tail(os))

\* '<input-filename> option ... option'
Line(f, os) == f \o OptionsText(os)

MalformedLines ==
    { <<>>, <<" ">>, <<"(">>, <<"(", "m">>, <<"m", " ", "(">>, <<"m", " ", "-", "a", "(">>,
      <<"m", " ", "a", "(", "1">>, <<"m", "(", "1", ")">>, <<" ", "m", " ">> }

ExportLines == { Line(f, os) : f \in Filenames, os \in OptionLists } \cup MalformedLines

Parts == { <<"p">>, <<"q">> }

\* ExportProperty(key, data, 'Export')
NewExportProperty(key, data) ==
    /\ result = Pending
    /\ given' = [fn |-> "ExportProperty", key |-> key, data |-> data]
    /\ result' = ExportProperty(StrV(key), data, "Export")
    /\ UNCHANGED castVars
    /\ UNCHANGED cfgVars

TextureOptions ==
    { NoneV, DictV(<<>>), DictV(<<Pair(StrV(<<"-", "t", "x", "o">>), StrV(<<>>))>>) }

ParsedSteps ==
    { ExportProperty(StrV(k), Line(f, <<>>), "Export").self : k \in Parts, f \in Filenames }
      \cup { ExportStep(NoneV, "Egg2Bam", StrV(<<>>), <<>>) }

GeneratePostNames == { "generate_post_egg2bam", "generate_post_bam2pz", "generate_post_egg2bampz" }

\* the steps a generate_post_* method returns, as a sequence
generate_post(fn, self, egg2bam_options) ==
    CASE fn = "generate_post_egg2bam" ->
             [new |-> <<generate_post_egg2bam(self, egg2bam_options)>>, self |-> self]
      [] fn = "generate_post_bam2pz" ->
             [new |-> <<generate_post_bam2pz(self)>>, self |-> self]
      [] fn = "generate_post_egg2bampz" -> generate_post_egg2bampz(self, egg2bam_options)

\* self.generate_post_egg2bam(o), self.generate_post_bam2pz(), self.generate_post_egg2bampz(o)
GeneratePost(fn, self, egg2bam_options) ==
    /\ result = Pending
    /\ given' = [fn |-> fn, self |-> self, egg2bam_options |-> egg2bam_options]
    /\ result' = generate_post(fn, self, egg2bam_options)
    /\ UNCHANGED castVars
    /\ UNCHANGED cfgVars

(***************************************************************************)
(* Chains of export steps (resource.py)                                    *)
(***************************************************************************)

\* __partition_export_steps, the loop over export_steps[1:]: list has no method
\* apppend, so taking a step into the current chain raises AttributeError
RECURSIVE partition_loop(_, _, _, _)
partition_loop(export_steps, i, chains, current_chain) ==
    IF i > Len(export_steps)
    THEN [chains |-> IF Len(current_chain) > 0 THEN Append(chains, current_chain)
                     ELSE chains]
    ELSE IF export_steps[i].input_filename
              = current_chain[Len(current_chain)].output_filename
         THEN Raise("AttributeError")
         ELSE partition_loop(export_steps, i + 1, Append(chains, current_chain),
                             <<export_steps[i]>>)

\* __partition_export_steps(export_steps)
partition_export_steps(export_steps) ==
    IF Len(export_steps) = 0 THEN [chains |-> <<>>]
    ELSE partition_loop(export_steps, 2, <<>>, <<export_steps[1]>>)

\* the steps a list to partition may hold at most
MaxSteps == 3

FileNames == { <<"x">>, <<"y">>, <<"z">> }

\* steps that read one file and write another
Converting == { ExportStep(StrV(o), "Export", StrV(i), <<>>) : i, o \in FileNames }

StepLists == UNION { [1..n -> Converting] : n \in 0..MaxSteps }

\* __partition_export_steps(export_steps)
Partition(export_steps) ==
    /\ result = Pending
    /\ given' = [fn |-> "partition_export_steps", export_steps |-> export_steps]
    /\ result' = partition_export_steps(export_steps)
    /\ UNCHANGED castVars
    /\ UNCHANGED cfgVars

\* EXPORTINFO: the output extension of a converter
EXPORTINFO ==
    [Export |-> <<".", "e", "g", "g">>, Egg2Bam |-> <<".", "b", "a", "m">>,
     Bam2Pz |-> <<".", "b", "a", "m", ".", "p", "z">>,
     TextureCards |-> <<".", "e", "g", "g">>, OptChar |-> <<".", "e", "g", "g">>,
     MakeFont |-> <<".", "e", "g", "g">>, Png2Ico |-> <<".", "i", "c", "o">>]

\* os.path.splitext(p)[0] of a file name without directories
splitext_root(p) == IF LastDot(p) > 1 THEN SubSeq(p, 1, LastDot(p) - 1) ELSE p

\* __get_output_filename(export_property): None for a converter EXPORTINFO lacks
get_output_filename(export_property) ==
    IF export_property.converter \in DOMAIN EXPORTINFO
    THEN StrV(splitext_root(export_property.output_filename.str)
                  \o EXPORTINFO[export_property.converter])
    ELSE NoneV

\* __check_for_necessary_export, first loop: whether some chain's output is
\* older than the ini file
force_export(files, chains, ini_file_date) ==
    \E c \in 1..Len(chains) :
        /\ Len(chains[c]) > 0
        /\ get_output_filename(chains[c][Len(chains[c])]) # NoneV
        /\ get_file_date(files, get_output_filename(chains[c][Len(chains[c])]).str)
               < ini_file_date

\* get_file_date(output_date): the function is handed the date the first loop
\* left in output_date, not a path; it answers 0 as for a file that is not
\* there, or raises TypeError, as the build has it
DateOfDate == { "zero", "TypeError" }

\* __check_for_necessary_export, second loop, from chain c on
RECURSIVE check_loop(_, _, _, _, _, _)
check_loop(files, chains, odd, c, ok, remaining_steps) ==
    IF c > Len(chains)
    THEN [result |-> ok, remaining_steps |-> remaining_steps, force_export |-> FALSE]
    ELSE LET chain == chains[c]
         IN  IF Len(chain) = 0
             THEN check_loop(files, chains, odd, c + 1, ok, remaining_steps)
             ELSE LET source_file == chain[1].input_filename
                      output_file == get_output_filename(chain[Len(chain)])
                  IN  IF source_file # StrV(<<>>) /\ output_file # NoneV
                      THEN IF odd = "TypeError" THEN Raise("TypeError")
                           ELSE check_loop(files, chains, odd, c + 1, ok,
                                    IF get_file_date(files, source_file.str) > 0
                                    THEN remaining_steps \o chain
                                    ELSE remaining_steps)
                      ELSE check_loop(files, chains, odd, c + 1, FALSE, remaining_steps)

\* reduce(list.__add__, chains) of a list that holds a chain
RECURSIVE reduce_add(_)
reduce_add(chains) ==
    IF Len(chains) = 1 THEN chains[1]
    ELSE reduce_add(SubSeq(chains, 1, Len(chains) - 1)) \o chains[Len(chains)]

\* __check_for_necessary_export(chains, ini_file_date)
check_for_necessary_export(files, chains, ini_file_date, odd) ==
    IF force_export(files, chains, ini_file_date)
    THEN [result |-> TRUE, remaining_steps |-> reduce_add(chains), force_export |-> TRUE]
    ELSE check_loop(files, chains, odd, 1, TRUE, <<>>)

\* the chains a list to check may hold at most
MaxChains == 2

\* the dates a file may bear
MaxDate == 2

SourceS == <<"s">>

SourceT == <<"t">>

OutA == <<"a">>

OutB == <<"b">>

EggA == <<"a", ".", "e", "g", "g">>

EggB == <<"b", ".", "e", "g", "g">>

\* one step from s to a, one step from t to b, two steps from s over a to b,
\* a step of a converter EXPORTINFO lacks, and the empty chain
Chains ==
    { <<ExportStep(StrV(OutA), "Export", StrV(SourceS), <<>>)>>,
      <<ExportStep(StrV(OutB), "Export", StrV(SourceT), <<>>)>>,
      <<ExportStep(StrV(OutA), "Export", StrV(SourceS), <<>>),
        ExportStep(StrV(OutB), "OptChar", StrV(OutA), <<>>)>>,
      <<ExportStep(StrV(OutA), "Unknown", StrV(SourceS), <<>>)>>,
      <<>> }

ChainLists == UNION { [1..n -> Chains] : n \in 0..MaxChains }

ExportFiles == [ {SourceS, SourceT, EggA, EggB} -> {NoFile} \cup { File(d, <<>>) : d \in 1..MaxDate } ]

\* __check_for_necessary_export(chains, ini_file_date)
CheckForNecessaryExport(files, chains, ini_file_date) ==
    /\ result = Pending
    /\ given' = [fn |-> "check_for_necessary_export", files |-> files,
                 chains |-> chains, ini_file_date |-> ini_file_date]
    /\ \E odd \in DateOfDate :
           result' = check_for_necessary_export(files, chains, ini_file_date, odd)
    /\ UNCHANGED castVars
    /\ UNCHANGED cfgVars

(***************************************************************************)
(* StaticModel.export (model.py)                                           *)
(***************************************************************************)

KeepUvs == StrV(<<"-", "k", "e", "e", "p", "-", "u", "v", "s">>)

\* StaticModel.export, the loop over the items of _model_data from item i on:
\* every ExportProperty is added to the steps, parsed or not
RECURSIVE export_loop(_, _, _, _, _)
export_loop(model_data, i, export_steps, models, errors) ==
    IF i > Len(model_data)
    THEN [added |-> export_steps, _models |-> models, errors |-> errors]
    ELSE LET r == ExportProperty(model_data[i].k, model_data[i].v.str, "Export")
         IN  IF Hangs(r) THEN NeverReturns
             ELSE LET export == [r.self EXCEPT !.options = dict_set(@, KeepUvs, StrV(<<>>))]
                      steps == Append(export_steps, export)
                  IN  export_loop(model_data, i + 1, steps,
                                  Append(models, steps[Len(steps)].output_filename),
                                  errors + r.errors)

\* Resource.export(force_export): reset_export_steps() and _export_failed = False
Resource_export(self) == [self EXCEPT !._export_steps = <<>>, !._export_failed = FALSE]

\* StaticModel.export(force_export) of a model with the parts _model_data: the
\* steps it added, and the fields it is left with
StaticModel_export(model_data) ==
    LET r == export_loop(model_data, 1, <<>>, <<>>, 0)
    IN  IF Hangs(r) THEN NeverReturns
        ELSE Resource_export([added |-> r.added, errors |-> r.errors, _models |-> r._models,
                              _export_steps |-> r.added, _export_failed |-> TRUE])

ModelLines ==
    { <<"m">>, <<"m", " ", "-", "a", "(", "1", ")">>, <<"m", " ", "a", "(", "1", ")">>,
      <<"(", "m">>, <<"m", " ", "(">>, <<>> }

\* the model sections: one line for each part
ModelData ==
    { <<>> } \cup { <<Pair(StrV(<<"p">>), StrV(l))>> : l \in ModelLines }
       \cup { <<Pair(StrV(<<"p">>), StrV(l)), Pair(StrV(<<"q">>), StrV(k))>> : l, k \in ModelLines }

\* model.export(force_export) of a StaticModel
StaticModelExport(model_data) ==
    /\ result = Pending
    /\ given' = [fn |-> "StaticModel.export", model_data |-> model_data]
    /\ result' = StaticModel_export(model_data)
    /\ UNCHANGED castVars
    /\ UNCHANGED cfgVars

InitExport ==
    /\ IdleCast
    /\ IdleCfg

NextExport ==
    \/ \E key \in Parts, data \in ExportLines : NewExportProperty(key, data)
    \/ \E fn \in GeneratePostNames, self \in ParsedSteps, o \in TextureOptions :
           GeneratePost(fn, self, o)
    \/ \E export_steps \in StepLists : Partition(export_steps)
    \/ \E files \in ExportFiles, chains \in ChainLists, d \in 1..(MaxDate + 1) :
           CheckForNecessaryExport(files, chains, d)
    \/ \E model_data \in ModelData : StaticModelExport(model_data)

SpecExport == InitExport /\ [][NextExport]_vars

(***************************************************************************)
(* Claims about the export steps                                           *)
(***************************************************************************)

ParseDone == result # Pending /\ given.fn = "ExportProperty"

\* every option is written '-name(value)', under a name of its own
Dashed(os) ==
    \A i \in 1..Len(os) :
        /\ os[i].dash = <<"-">>
        /\ \A j \in 1..Len(os) : i # j => os[i].name # os[j].name

\* '-name_i' -> cast(value_i)
ExpectedOptions(os) ==
    [i \in 1..Len(os) |->
        Pair(StrV(<<"-">> \o os[i].name), cast(InternalCasters, os[i].val))]

\* C15: parse of a line '<input-filename> -name1(value1) ... -namek(valuek)' sets
\* input_filename to the filename and options to exactly the k entries that map
\* each '-name_i' to cast(value_i); a line with only a filename leaves options empty.
C15_ParseLine ==
    \A f \in Filenames, os \in OptionLists :
        (ParseDone /\ Dashed(os) /\ given.data = Line(f, os)) =>
            /\ ~Hangs(result)
            /\ result.self.input_filename = StrV(f)
            /\ result.self.options = ExpectedOptions(os)

ExportDone == result # Pending /\ given.fn = "StaticModel.export"

\* the line logs an error when an ExportProperty is made of it
Unparsable(data) ==
    LET r == ExportProperty(NoneV, data, "Export")
    IN  ~Hangs(r) /\ r.errors > 0

GenerateDone == result # Pending /\ given.fn \in GeneratePostNames

\* C17: generate_post_egg2bam, generate_post_bam2pz and generate_post_egg2bampz
\* each return, leaving the step they are called on as it was, new steps chained
\* to it: the first new step reads the output of the original step, every new
\* step's output_filename equals its own input_filename, and
\* generate_post_egg2bampz returns the pair (Egg2Bam step, Bam2Pz step) with the
\* second chained to the first.
C17_GeneratePostChained ==
    GenerateDone =>
        /\ ~IsRaise(result)
        /\ result.self = given.self
        /\ result.new[1].input_filename = given.self.output_filename
        /\ \A i \in 1..Len(result.new) :
               result.new[i].output_filename = result.new[i].input_filename
        /\ given.fn = "generate_post_egg2bampz" =>
               /\ Len(result.new) = 2
               /\ result.new[1].converter = "Egg2Bam"
               /\ result.new[2].converter = "Bam2Pz"
               /\ result.new[2].input_filename = result.new[1].output_filename

PartitionDone == result # Pending /\ given.fn = "partition_export_steps"

RECURSIVE Flat(_)
Flat(chains) == IF chains = <<>> THEN <<>> ELSE chains[1] \o Flat(Tail(chains))

\* C18: partitioning a flat list of export steps returns non-empty chains whose
\* concatenation is the list in order; within a chain each step reads the output
\* of the step before it, and a chain ends exactly where that fails; the empty
\* list gives no chains.
C18_PartitionIntoChains ==
    PartitionDone =>
        /\ ~IsRaise(result)
        /\ Flat(result.chains) = given.export_steps
        /\ \A c \in 1..Len(result.chains) :
               /\ Len(result.chains[c]) > 0
               /\ \A i \in 2..Len(result.chains[c]) :
                      result.chains[c][i].input_filename
                          = result.chains[c][i - 1].output_filename
        /\ \A c \in 2..Len(result.chains) :
               result.chains[c][1].input_filename
                   # result.chains[c - 1][Len(result.chains[c - 1])].output_filename

CheckDone == result # Pending /\ given.fn = "check_for_necessary_export"

\* a chain with a first step to read and a converter EXPORTINFO knows
Checkable(chain) ==
    /\ Len(chain) > 0
    /\ chain[1].input_filename # StrV(<<>>)
    /\ get_output_filename(chain[Len(chain)]) # NoneV

OutputDate(files, chain) ==
    get_file_date(files, get_output_filename(chain[Len(chain)]).str)

SourceDate(files, chain) == get_file_date(files, chain[1].input_filename.str)

\* the chain's output is older than the reference, or older than its source
MustRerun(files, chain, reference) ==
    \/ OutputDate(files, chain) < reference
    \/ SourceDate(files, chain) > OutputDate(files, chain)

RECURSIVE Rerun(_, _, _)
Rerun(files, chains, reference) ==
    IF chains = <<>> THEN <<>>
    ELSE (IF MustRerun(files, chains[1], reference) THEN chains[1] ELSE <<>>)
             \o Rerun(files, Tail(chains), reference)

\* C19: a chain whose final output file is older than the reference is returned
\* in full among the steps to re-run; a chain whose final output is not older is
\* returned in full only if its source file is newer than its output, and
\* otherwise gives no step; the returned steps keep the order of the chains.
C19_StaleChainsRerun ==
    (CheckDone /\ \A c \in 1..Len(given.chains) : Checkable(given.chains[c])) =>
        /\ ~IsRaise(result)
        /\ result.remaining_steps
               = Rerun(given.files, given.chains, given.ini_file_date)

(***************************************************************************)
(* Indented files (io/indented_file.py)                                    *)
(***************************************************************************)

\* the end of the white space that starts at pos
RECURSIVE SpaceEnd(_, _)
SpaceEnd(txt, pos) ==
    IF pos <= Len(txt) /\ IsSpace(txt[pos]) THEN SpaceEnd(txt, pos + 1) ELSE pos

\* the end of the WORD '[A-Za-z_][a-zA-Z_0-9]*' that starts at pos, pos when none does
WordEnd(txt, pos) ==
    IF pos <= Len(txt) /\ IsNameStart(txt[pos]) THEN NameEnd(txt, pos) ELSE pos

\* LINE_RE.match(line), '(\s*)(\*?)\s*WORD\s*WORD?\s*\:\s*(.*)' on one line: the
\* groups (indent, free, type, name, args), name None when the line has none
LINE_RE(line) ==
    LET star == SpaceEnd(line, 1)
        free == IF star <= Len(line) /\ line[star] = "*" THEN <<"*">> ELSE <<>>
        type == SpaceEnd(line, star + Len(free))
        type_end == WordEnd(line, type)
        name == SpaceEnd(line, type_end)
        name_end == WordEnd(line, name)
        colon == SpaceEnd(line, name_end)
        args == SpaceEnd(line, colon + 1)
    IN  IF type_end = type \/ colon > Len(line) \/ line[colon] # ":" THEN NoMatch
        ELSE Match(<<SubSeq(line, 1, star - 1), free, SubSeq(line, type, type_end - 1),
                     IF name_end = name THEN NoneV
                     ELSE StrV(SubSeq(line, name, name_end - 1)),
                     SubSeq(line, args, Len(line))>>)

\* __strip_comment(line, comment_head)
strip_comment(line, comment_head) ==
    LET comment_found == FindChar(line, 1, comment_head)
    IN  IF comment_found # 0 THEN SubSeq(line, 1, comment_found - 1) ELSE line

\* a ParserNode; parent is the place of the parent node in nodes, 0 for None
ParserNode(type, free, name, args, parent) ==
    [type |-> type, free |-> free, name |-> name, args |-> args, parent |-> parent]

RECURSIVE pop_parents(_, _, _)

\* the loop of pop_parents with 'indent < parents_indent[-1]'
RECURSIVE pop_parents_below(_, _, _)
pop_parents_below(parents, parents_indent, indent) ==
    IF indent < parents_indent[Len(parents_indent)]
    THEN pop_parents_below(SubSeq(parents, 1, Len(parents) - 1),
                           SubSeq(parents_indent, 1, Len(parents_indent) - 1), indent)
    ELSE [parents |-> parents, parents_indent |-> parents_indent]

\* parse, 'while indent <= parents_indent[-1]': the parents left on the stack
pop_parents(parents, parents_indent, indent) ==
    IF indent <= parents_indent[Len(parents_indent)]
    THEN pop_parents(SubSeq(parents, 1, Len(parents) - 1),
                     SubSeq(parents_indent, 1, Len(parents_indent) - 1), indent)
    ELSE [parents |-> parents, parents_indent |-> parents_indent]

\* parse, the loop over the lines of the file from line_nr on
RECURSIVE parse_lines(_, _, _, _, _, _, _)
parse_lines(lines, cast_args, line_nr, nodes, parents, parents_indent, warnings) ==
    IF line_nr > Len(lines) THEN [nodes |-> nodes, warnings |-> warnings]
    ELSE LET line == strip_comment(strip_comment(lines[line_nr], "#"), ";")
             m == LINE_RE(line)
         IN  IF strip(line) = <<>>
             THEN parse_lines(lines, cast_args, line_nr + 1, nodes, parents,
                              parents_indent, warnings)
             ELSE IF ~m.matched
             THEN parse_lines(lines, cast_args, line_nr + 1, nodes, parents,
                              parents_indent, warnings + 1)
             ELSE LET casted == IF cast_args THEN pcast_cast(m.groups[5])
                                ELSE Returned(StrV(m.groups[5]), <<>>)
                      stack == pop_parents(parents, parents_indent, Len(m.groups[1]))
                      pn == ParserNode(m.groups[3], m.groups[2], m.groups[4], casted.ret,
                                       IF Len(stack.parents) > 0
                                       THEN stack.parents[Len(stack.parents)] ELSE 0)
                  IN  IF IsRaise(casted) THEN casted
                      ELSE parse_lines(lines, cast_args, line_nr + 1, Append(nodes, pn),
                                       Append(stack.parents, Len(nodes) + 1),
                                       Append(stack.parents_indent, Len(m.groups[1])),
                                       warnings)

\* parse(path, cast_args) of a file that opens and holds the given lines
indented_file_parse(lines, cast_args) ==
    parse_lines(lines, cast_args, 1, <<>>, <<>>, <<-1>>, 0)

\* the lines a file may hold at most
MaxLines == 3

Indents == { <<>>, <<" ", " ">>, <<" ", " ", " ", " ">> }

\* a node, a free node with a name and arguments, a line without colon, a
\* comment, a node with a dictionary, a node with a number, a half comment
Bodies ==
    { <<"a", ":">>, <<"*", "b", " ", "c", ":", "1">>, <<"a">>, <<"#", "a", ":">>,
      <<"a", ":", "{", "}">>, <<>>, <<"a", ":", ";", "1">> }

IndentedLines == { i \o b : i \in Indents, b \in Bodies }

IndentedFiles == UNION { [1..n -> IndentedLines] : n \in 0..MaxLines }

\* parse(path, cast_args)
IndentedFileParse(lines, cast_args) ==
    /\ result = Pending
    /\ given' = [fn |-> "indented_file.parse", lines |-> lines, cast_args |-> cast_args]
    /\ result' = indented_file_parse(lines, cast_args)
    /\ UNCHANGED castVars
    /\ UNCHANGED cfgVars

InitIndented ==
    /\ IdleCast
    /\ IdleCfg

NextIndented ==
    \E lines \in IndentedFiles, cast_args \in BOOLEAN : IndentedFileParse(lines, cast_args)

SpecIndented == InitIndented /\ [][NextIndented]_vars

IndentedDone == result # Pending /\ given.fn = "indented_file.parse"

\* the line without its comments
Uncommented(line) == strip_comment(strip_comment(line, "#"), ";")

\* the line is not blank, not a comment only, and follows the line grammar
MakesNode(line) ==
    /\ strip(Uncommented(line)) # <<>>
    /\ LINE_RE(Uncommented(line)).matched

\* the white space the line starts with
Indentation(line) == SpaceEnd(line, 1) - 1

\* the place in nodes of the node made of line i
NodeOf(lines, i) == Cardinality({ j \in 1..i : MakesNode(lines[j]) })

Latest(S) == CHOOSE x \in S : \A y \in S : y <= x

\* C20: the parent of the node made of a line is the node of the nearest line
\* before it that made a node and has strictly smaller indentation, or none when
\* there is no such line; lines that are blank, comment-only or fail the line
\* grammar make no node and change no parent.  Stated of a parse that returns.
C20_ParentIsNearestShallower ==
    (IndentedDone /\ ~IsRaise(result)) =>
        LET lines == given.lines
            made == { i \in 1..Len(lines) : MakesNode(lines[i]) }
        IN  /\ Len(result.nodes) = Cardinality(made)
            /\ \A i \in made :
                   LET above == { j \in made : /\ j < i
                                               /\ Indentation(lines[j])
                                                      < Indentation(lines[i]) }
                   IN  result.nodes[NodeOf(lines, i)].parent
                           = IF above = {} THEN 0 ELSE NodeOf(lines, Latest(above))

\* lines at indents 0, 4, 4 were parsed: the second and third node have the
\* first as parent
C20_Witness ==
    /\ IndentedDone
    /\ ~IsRaise(result)
    /\ Len(given.lines) = 3
    /\ Indentation(given.lines[1]) = 0
    /\ Indentation(given.lines[2]) = 4
    /\ Indentation(given.lines[3]) = 4
    /\ Len(result.nodes) = 3
    /\ result.nodes[1].parent = 0
    /\ result.nodes[2].parent = 1
    /\ result.nodes[3].parent = 1

(***************************************************************************)
(* build_child_list (io/indented_file.py)                                  *)
(***************************************************************************)

\* the node i with the attribute children set to cs
WithChildren(nodes, i, cs) ==
    [nodes EXCEPT ![i] = [f \in DOMAIN nodes[i] \cup {"children"} |->
                             IF f = "children" THEN cs ELSE nodes[i][f]]]

RECURSIVE build_loop(_, _)

\* the loop of build_child_list that leaves the children list a node already has
RECURSIVE build_loop_keeping(_, _)
build_loop_keeping(nodes, i) ==
    IF i > Len(nodes) THEN [nodes |-> nodes]
    ELSE LET reset == IF "children" \in DOMAIN nodes[i] THEN nodes
                      ELSE WithChildren(nodes, i, <<>>)
             parent == reset[i].parent
         IN  IF parent = 0 THEN build_loop_keeping(reset, i + 1)
             ELSE IF "children" \notin DOMAIN reset[parent] THEN Raise("AttributeError")
             ELSE build_loop_keeping(
                      WithChildren(reset, parent, Append(reset[parent].children, i)), i + 1)

\* build_child_list, 'for n in nodes' from node i on: n.children = [], then a
\* reference to n is appended to the children of its parent; a parent that has
\* no children attribute yet raises AttributeError
build_loop(nodes, i) ==
    IF i > Len(nodes) THEN [nodes |-> nodes]
    ELSE LET reset == WithChildren(nodes, i, <<>>)
             parent == reset[i].parent
         IN  IF parent = 0 THEN build_loop(reset, i + 1)
             ELSE IF "children" \notin DOMAIN reset[parent] THEN Raise("AttributeError")
             ELSE build_loop(
                      WithChildren(reset, parent, Append(reset[parent].children, i)), i + 1)

\* build_child_list(nodes)
build_child_list(nodes) == build_loop(nodes, 1)

\* the lines a file whose tree is built may hold at most
MaxTreeLines == 4

TreeLines == { i \o b : i \in Indents, b \in { <<"a", ":">>, <<"a">> } }

TreeFiles == UNION { [1..n -> TreeLines] : n \in 0..MaxTreeLines }

\* nodes = parse(path)
ParseTree(lines) ==
    /\ result = Pending
    /\ given' = [fn |-> "build_child_list", lines |-> lines]
    /\ result' = [nodes |-> indented_file_parse(lines, FALSE).nodes, built |-> 0]
    /\ UNCHANGED castVars
    /\ UNCHANGED cfgVars

\* nodes = build_child_list(nodes), the first and the second time
BuildChildList ==
    /\ result # Pending
    /\ given.fn = "build_child_list"
    /\ ~IsRaise(result)
    /\ result.built < 2
    /\ result' = Only({ IF IsRaise(r) THEN r
                        ELSE [nodes |-> r.nodes, built |-> result.built + 1,
                              before |-> result.nodes]
                        : r \in {build_child_list(result.nodes)} })
    /\ UNCHANGED given
    /\ UNCHANGED castVars
    /\ UNCHANGED cfgVars

InitTree ==
    /\ IdleCast
    /\ IdleCfg

NextTree ==
    \/ \E lines \in TreeFiles : ParseTree(lines)
    \/ BuildChildList

SpecTree == InitTree /\ [][NextTree]_vars

TreeBuilt == result # Pending /\ given.fn = "build_child_list" /\ ~IsRaise(result)

\* the places of the nodes from i on whose parent is p, in file order
RECURSIVE ChildrenFrom(_, _, _)
ChildrenFrom(nodes, p, i) ==
    IF i > Len(nodes) THEN <<>>
    ELSE (IF nodes[i].parent = p THEN <<i>> ELSE <<>>) \o ChildrenFrom(nodes, p, i + 1)

\* C21: after build_child_list on the node list parse returned, c is in
\* p.children exactly when c.parent is p, each child once and in file order,
\* every node has a children list (empty for leaves), and a second application
\* gives the same children lists.
C21_ChildrenMirrorParents ==
    /\ (result # Pending /\ given.fn = "build_child_list") => ~IsRaise(result)
    /\ (TreeBuilt /\ result.built >= 1) =>
           \A p \in 1..Len(result.nodes) :
               /\ "children" \in DOMAIN result.nodes[p]
               /\ result.nodes[p].children = ChildrenFrom(result.nodes, p, 1)
    /\ (TreeBuilt /\ result.built = 2) => result.nodes = result.before

\* a tree of a root with two children, one of them with a child of its own, was
\* built twice
C21_Witness ==
    /\ TreeBuilt
    /\ result.built = 2
    /\ Len(result.nodes) = 4
    /\ result.nodes[1].children = <<2, 4>>
    /\ result.nodes[2].children = <<3>>
    /\ result.nodes[3].children = <<>>

(***************************************************************************)
(* initialize() outside its contract (configurable.py)                     *)
(***************************************************************************)

\* obj.configuration = [...]: a subclass binds the field to a value that is no dict
AssignConfiguration ==
    /\ Usable
    /\ obj.configuration_is_dict
    /\ obj' = [obj EXCEPT !.configuration = <<>>, !.configuration_is_dict = FALSE]
    /\ last' = Last("configuration=", <<>>, NoneV, Step(World(fs, clock, cacheFiles), obj),
                    obj.configuration)
    /\ UNCHANGED <<fs, clock, datWritable, cacheFiles>>
    /\ UNCHANGED castVars
    /\ UNCHANGED fnVars

\* objects made with a path (and so loaded) and without one, whose configuration
\* may be rebound before initialize()
NextContract ==
    \/ \E cls \in DispatchClasses, path \in {<<>>, BasePath}, auto \in BOOLEAN :
           Construct(cls, path, auto, FALSE)
    \/ AssignConfiguration
    \/ Initialize

SpecContract == InitDispatch /\ [][NextContract]_vars

\* the last operation was initialize() on an object whose configuration is no
\* mapping, or on which load() has not been performed
OutsideContract ==
    /\ obj # NoObject
    /\ last.op = "initialize"
    /\ (~obj.configuration_is_dict \/ obj.config_path = <<>>)

\* C22: initialize() raises an exception when the object's configuration field is
\* not a mapping, and when it is called on an object on which load() has not
\* been performed.
C22_ContractViolationsRaise == OutsideContract => last.exc # NoExc

(***************************************************************************)
(* Elements of nested list and tuple literals (cast.py)                    *)
(***************************************************************************)

Closer(c) == IF c = "[" THEN "]" ELSE ")"

\* the words of a body between the commas at depth zero, where every '[' and
\* every '(' opens a level that its own closing bracket ends; not balanced when
\* a bracket closes what is not open or a level stays open
RECURSIVE DepthSplit(_, _, _, _, _)
DepthSplit(v, i, open, words, word) ==
    IF i > Len(v)
    THEN IF open # <<>> THEN [balanced |-> FALSE]
         ELSE [balanced |-> TRUE,
               words |-> IF strip(word) # <<>> THEN Append(words, strip(word)) ELSE words]
    ELSE IF v[i] \in {"[", "("}
    THEN DepthSplit(v, i + 1, Append(open, Closer(v[i])), words, Append(word, v[i]))
    ELSE IF v[i] \in {"]", ")"}
    THEN IF open = <<>> \/ open[Len(open)] # v[i] THEN [balanced |-> FALSE]
         ELSE DepthSplit(v, i + 1, SubSeq(open, 1, Len(open) - 1), words,
                         Append(word, v[i]))
    ELSE IF v[i] = "," /\ open = <<>>
    THEN DepthSplit(v, i + 1, open, Append(words, strip(word)), <<>>)
    ELSE DepthSplit(v, i + 1, open, words, Append(word, v[i]))

\* w is '[' body ']' or '(' body ')'
IsSequenceLiteral(w) ==
    /\ Len(w) >= 2
    /\ \/ w[1] = "[" /\ w[Len(w)] = "]"
       \/ w[1] = "(" /\ w[Len(w)] = ")"

\* the list or tuple of the casts of the words
SequenceOf(cs, w, words) ==
    Only({ IF IsRaise(vs) THEN vs
           ELSE SequenceCaster_cls(IF w[1] = "(" THEN "tuple" ELSE "list", vs.values)
           : vs \in {FirstRaise([i \in 1..Len(words) |-> cast(cs, words[i])])} })

\* C23: cast splits the body of a list or tuple literal into elements only at
\* commas at bracket depth zero, where depth counts every enclosing [...] and
\* (...) pair, whichever kind the outer literal is: '[(1,2), [3,4]]' gives a
\* list of the tuple (1,2) and the list [3,4].
C23_SplitAtDepthZero ==
    (/\ CastDone
     /\ InSeq(ListCast, casters)
     /\ InSeq(TupleCast, casters)
     /\ IsSequenceLiteral(strip(value))
     /\ DepthSplit(slice(strip(value), 1, 1), 1, <<>>, <<>>, <<>>).balanced) =>
        output = SequenceOf(casters, strip(value),
                            DepthSplit(slice(strip(value), 1, 1), 1, <<>>, <<>>, <<>>).words)

(***************************************************************************)
(* The cached parse and the operations around it (configurable.py)         *)
(***************************************************************************)

\* a file that includes the other file and shares the section Model with it, and
\* a file on its own
FrameBaseFiles ==
    { <<Section(DefaultSection, Item(include_str, OtherPath) \o Item(KeyA, One)),
        Section(SecModel, Item(KeyA, One))>>,
      <<Section(DefaultSection, Item(KeyA, Two)), Section(SecFxSet, Item(KeyB, One))>> }

FrameOtherFiles ==
    { <<Section(DefaultSection, Item(KeyB, Two)), Section(SecModel, Item(KeyB, Two)),
        Section(SecFxSet, Item(KeyA, One))>>,
      <<Section(DefaultSection, Item(KeyB, One))>> }

FrameClasses == { Class({set_a_b, load_model_data}, {}, TRUE) }

\* obj = Cls(path) where obj was bound to an object before: a second object
ConstructAnother(cls, path) ==
    /\ Usable
    /\ LET S == Configurable_init(World(fs, clock, cacheFiles), "self", cls, path,
                                  DefaultSection, FALSE, FALSE)
       IN  /\ Commit(S)
           /\ last' = Last("__init__", <<>>, NoneV, S, <<>>)
    /\ UNCHANGED datWritable
    /\ UNCHANGED castVars
    /\ UNCHANGED fnVars

InitFrame ==
    /\ IdleCast
    /\ fs \in { FileSystem(b, o, TRUE) : b \in FrameBaseFiles, o \in FrameOtherFiles }
    /\ clock = 2
    /\ datWritable \in BOOLEAN
    /\ cacheFiles = <<>>
    /\ obj = NoObject
    /\ last = NoLast

NextFrame ==
    \/ \E cls \in FrameClasses, path \in {BasePath, OtherPath} :
           Construct(cls, path, FALSE, FALSE)
    \/ \E cls \in FrameClasses, path \in {BasePath, OtherPath} : ConstructAnother(cls, path)
    \/ Load
    \/ Initialize
    \/ \E path \in {BasePath, OtherPath}, data \in FrameOtherFiles : WriteFile(path, data)
    \/ \E path \in {BasePath, OtherPath} : Read(path)

SpecFrame == InitFrame /\ [][NextFrame]_vars

\* the paths the last operation read from the cache: the path of a read, and the
\* path and the include of a load
ReadPaths ==
    IF last.op = "read" THEN {last.key}
    ELSE IF last.op \in {"__init__", "load"} THEN {obj.path, IncludePath}
    ELSE {}

\* C24: the cached parse of a path is replaced only as a whole and only by a read
\* of that path that detected staleness (an entry is never dropped); no other
\* operation, load() and initialize() with their include and section merging
\* among them, alters a cached parse, so an object that loads an unmodified file
\* another object loaded before observes the parse the cache held.
C24_CachedParseFrame ==
    [][ /\ \A p \in DOMAIN cacheFiles :
               /\ p \in DOMAIN cacheFiles'
               /\ cacheFiles'[p] # cacheFiles[p] =>
                      /\ p \in ReadPaths'
                      /\ get_file_date(fs', get_cache_filename(p)) > cacheFiles[p].date
        /\ (/\ last'.op \in {"__init__", "load"}
            /\ last'.exc = NoExc
            /\ obj'.path \in DOMAIN cacheFiles
            /\ cacheFiles'[obj'.path] = cacheFiles[obj'.path]) =>
               obj'.config = cacheFiles[obj'.path].reader ]_vars

\* a second object has loaded, from the cache alone, a file that includes another
\* file and shares a section with it
C24_Witness ==
    /\ obj # NoObject
    /\ last.op = "__init__"
    /\ last.exc = NoExc
    /\ last.parses = <<>>
    /\ obj.path = BasePath
    /\ IncludePath = OtherPath
    /\ has_section(Reader(fs[BasePath].data), SecModel)
    /\ has_section(Reader(fs[OtherPath].data), SecModel)
    /\ BasePath \in DOMAIN cacheFiles
    /\ OtherPath \in DOMAIN cacheFiles

\* C25: ExportProperty.parse terminates for every input line, lines with
\* well-formed option tokens among them: the call made of the line returns.
C25_ParseTerminates == ParseDone => ~Hangs(result)

(***************************************************************************)
(* Services and the service manager (framework/service.py)                 *)
(* In the specifications of this part obj holds the objects under          *)
(* observation and last what the last call did.                            *)
(***************************************************************************)

MaxServices == 2

MaxPriority == 1

ServiceIds == 1..MaxServices

ServiceNames == {"a", "b"}

CommandNames == {"go"}

\* what the dispatch(command_name, service_name) calls are made with
DispatchCommands == CommandNames \cup {"halt"}

NoName == "None"

\* Service(name, priority) followed by add_command(Command(c, f)) for c in commands
Service(name, priority, commands) ==
    [name |-> name, priority |-> priority, commands |-> commands]

ServiceTables ==
    [ServiceIds -> { Service(n, p, c) : n \in ServiceNames, p \in 0..MaxPriority,
                                        c \in SUBSET CommandNames }]

\* ServiceManager.activate(service), the list self.services after it
ServiceManager_activate(services, s) ==
    IF ~InSeq(s, services) THEN Append(services, s) ELSE services

\* ServiceManager.deactivate(service): list.remove is called when the service is
\* NOT in the list, where it raises ValueError; a listed service stays listed
ServiceManager_deactivate(services, s) ==
    IF ~InSeq(s, services) THEN Raise("ValueError") ELSE [services |-> services]

\* the services of self.services that have the command, of the greatest priority
\* among them, in the order of self.services
select_highest_priority_services(table, services, command_name) ==
    LET having == { i \in 1..Len(services) : command_name \in table[services[i]].commands }
        top == { i \in having : \A j \in having :
                     table[services[j]].priority <= table[services[i]].priority }
    IN  SelectSeq(services, LAMBDA s : \E i \in top : services[i] = s)

\* the services dispatch() calls the command of
ServiceManager_dispatch(table, services, command_name, service_name) ==
    LET selected == select_highest_priority_services(table, services, command_name)
    IN  SelectSeq(selected,
                  LAMBDA s : /\ ~(service_name # NoName /\ service_name # table[s].name)
                             /\ command_name \in table[s].commands)

\* service.activate()
ServiceActivate(s) ==
    /\ IF obj.running[s]
       THEN /\ last' = [op |-> "activate", service |-> s, returned |-> FALSE,
                        exc |-> NoExc, ran |-> <<>>]
            /\ UNCHANGED obj
       ELSE /\ obj' = [obj EXCEPT !.services = ServiceManager_activate(obj.services, s),
                                  !.running[s] = TRUE]
            /\ last' = [op |-> "activate", service |-> s, returned |-> TRUE,
                        exc |-> NoExc, ran |-> <<>>]
    /\ UNCHANGED <<fs, clock, datWritable, cacheFiles>>
    /\ UNCHANGED castVars
    /\ UNCHANGED fnVars

\* service.deactivate()
ServiceDeactivate(s) ==
    /\ IF ~obj.running[s]
       THEN /\ last' = [op |-> "deactivate", service |-> s, returned |-> FALSE,
                        exc |-> NoExc, ran |-> <<>>]
            /\ UNCHANGED obj
       ELSE LET r == ServiceManager_deactivate(obj.services, s)
            IN  IF IsRaise(r)
                THEN /\ last' = [op |-> "deactivate", service |-> s, returned |-> FALSE,
                                 exc |-> r.raise, ran |-> <<>>]
                     /\ UNCHANGED obj
                ELSE /\ obj' = [obj EXCEPT !.services = r.services, !.running[s] = FALSE]
                     /\ last' = [op |-> "deactivate", service |-> s, returned |-> TRUE,
                                 exc |-> NoExc, ran |-> <<>>]
    /\ UNCHANGED <<fs, clock, datWritable, cacheFiles>>
    /\ UNCHANGED castVars
    /\ UNCHANGED fnVars

\* await ServiceManager.get_singleton().dispatch(command_name, service_name)
ServiceDispatch(command_name, service_name) ==
    /\ last' = [op |-> "dispatch", command |-> command_name, name |-> service_name,
                exc |-> NoExc,
                ran |-> ServiceManager_dispatch(obj.table, obj.services, command_name,
                                               service_name)]
    /\ UNCHANGED obj
    /\ UNCHANGED <<fs, clock, datWritable, cacheFiles>>
    /\ UNCHANGED castVars
    /\ UNCHANGED fnVars

\* the manager is instantiated and the services are constructed, none is activated
InitService ==
    /\ IdleCast
    /\ fs = [p \in {} |-> NoneV]
    /\ clock = 1
    /\ datWritable = TRUE
    /\ cacheFiles = <<>>
    /\ \E table \in ServiceTables :
           obj = [table |-> table, services |-> <<>>,
                  running |-> [s \in ServiceIds |-> FALSE]]
    /\ last = [op |-> "none"]

NextService ==
    \/ \E s \in ServiceIds : ServiceActivate(s)
    \/ \E s \in ServiceIds : ServiceDeactivate(s)
    \/ \E c \in DispatchCommands, n \in ServiceNames \cup {NoName} : ServiceDispatch(c, n)

SpecService == InitService /\ [][NextService]_vars

\* C26: after any sequence of Service.activate() and Service.deactivate() calls
\* ServiceManager.services holds exactly the services whose is_activated() is
\* true, each at most once; a deactivated service is no longer a target of
\* dispatch, and deactivate() on a running service raises nothing.
C26_ServicesAreTheActivated ==
    /\ \A s \in ServiceIds : InSeq(s, obj.services) <=> obj.running[s]
    /\ \A i, j \in 1..Len(obj.services) : obj.services[i] = obj.services[j] => i = j
    /\ last.op = "dispatch" => \A i \in 1..Len(last.ran) : obj.running[last.ran[i]]
    /\ last.op = "deactivate" => last.exc = NoExc

\* C27: dispatch(command_name, service_name) runs the command on the activated
\* service of that name whenever it defines the command, whatever the priorities
\* of the other services that define it; without a service name it runs the
\* command on all activated services that define it.
C27_DispatchReachesTargets ==
    last.op = "dispatch" =>
        \A s \in ServiceIds :
            (/\ obj.running[s]
             /\ last.command \in obj.table[s].commands
             /\ last.name \in {NoName, obj.table[s].name})
            => InSeq(s, last.ran)

(***************************************************************************)
(* Singletons (framework/singleton.py)                                     *)
(***************************************************************************)

MaxInstances == 3

\* _singleton_instance = None
NoInstance == 0

\* a class whose __init__ runs Singleton.__init__ (ServiceManager and the other
\* managers) and a subclass of SingletonWrapper, whose __init__ does not
SingletonClasses == {"ServiceManager", "SingletonLocalSettings"}

\* SingletonWrapper.__init__ builds the wrapped object and never calls
\* Singleton.__init__
RunsSingletonInit(cls) == cls # "SingletonLocalSettings"

is_instantiated(instance, cls) == instance[cls] # NoInstance

\* cls.reset_singleton(inst): the registered instances after it and the instances
\* destroy was called on
reset_singleton(instance, cls, inst) ==
    [instance |-> [instance EXCEPT ![cls] = inst],
     destroyed |-> IF instance[cls] # NoInstance /\ inst # instance[cls]
                   THEN <<instance[cls]>> ELSE <<>>]

get_singleton(instance, cls) == instance[cls]

\* cls(), the instance being self: what __init__ does to the registration
Singleton_init(instance, cls, self) ==
    IF ~RunsSingletonInit(cls)
    THEN [instance |-> instance, destroyed |-> <<>>, exc |-> NoExc]
    ELSE IF ~is_instantiated(instance, cls)
         THEN Only({ [instance |-> r.instance, destroyed |-> r.destroyed, exc |-> NoExc]
                     : r \in {reset_singleton(instance, cls, self)} })
         ELSE [instance |-> instance, destroyed |-> <<>>, exc |-> "RuntimeError"]

\* cls.instantiate_singleton() when cls() makes the instance self
instantiate_singleton(instance, cls, self) ==
    IF ~is_instantiated(instance, cls)
    THEN LET made == Singleton_init(instance, cls, self)
             r == reset_singleton(made.instance, cls, self)
         IN  IF made.exc # NoExc
             THEN [instance |-> made.instance, destroyed |-> made.destroyed,
                   exc |-> made.exc, returned |-> NoInstance, constructed |-> 1]
             ELSE [instance |-> r.instance, destroyed |-> made.destroyed \o r.destroyed,
                   exc |-> NoExc, returned |-> get_singleton(r.instance, cls),
                   constructed |-> 1]
    ELSE [instance |-> instance, destroyed |-> <<>>, exc |-> NoExc,
          returned |-> get_singleton(instance, cls), constructed |-> 0]

\* cls()
SingletonConstruct(cls) ==
    /\ obj.made[cls] < MaxInstances
    /\ LET self == obj.made[cls] + 1
           r == Singleton_init(obj.instance, cls, self)
       IN  /\ obj' = [instance |-> r.instance, made |-> [obj.made EXCEPT ![cls] = self]]
           /\ last' = [op |-> "__init__", cls |-> cls, inst |-> self,
                       before |-> obj.instance[cls], exc |-> r.exc,
                       returned |-> NoInstance, destroyed |-> r.destroyed,
                       constructed |-> 1]
    /\ UNCHANGED <<fs, clock, datWritable, cacheFiles>>
    /\ UNCHANGED castVars
    /\ UNCHANGED fnVars

\* cls.instantiate_singleton()
SingletonInstantiate(cls) ==
    /\ is_instantiated(obj.instance, cls) \/ obj.made[cls] < MaxInstances
    /\ LET self == obj.made[cls] + 1
           r == instantiate_singleton(obj.instance, cls, self)
       IN  /\ obj' = [instance |-> r.instance,
                      made |-> [obj.made EXCEPT ![cls] = @ + r.constructed]]
           /\ last' = [op |-> "instantiate_singleton", cls |-> cls, inst |-> NoInstance,
                       before |-> obj.instance[cls], exc |-> r.exc,
                       returned |-> r.returned, destroyed |-> r.destroyed,
                       constructed |-> r.constructed]
    /\ UNCHANGED <<fs, clock, datWritable, cacheFiles>>
    /\ UNCHANGED castVars
    /\ UNCHANGED fnVars

\* cls.reset_singleton(inst), inst being None or an instance made before
SingletonReset(cls, inst) ==
    /\ inst \in 0..obj.made[cls]
    /\ LET r == reset_singleton(obj.instance, cls, inst)
       IN  /\ obj' = [obj EXCEPT !.instance = r.instance]
           /\ last' = [op |-> "reset_singleton", cls |-> cls, inst |-> inst,
                       before |-> obj.instance[cls], exc |-> NoExc,
                       returned |-> NoInstance, destroyed |-> r.destroyed,
                       constructed |-> 0]
    /\ UNCHANGED <<fs, clock, datWritable, cacheFiles>>
    /\ UNCHANGED castVars
    /\ UNCHANGED fnVars

InitSingleton ==
    /\ IdleCast
    /\ fs = [p \in {} |-> NoneV]
    /\ clock = 1
    /\ datWritable = TRUE
    /\ cacheFiles = <<>>
    /\ obj = [instance |-> [cls \in SingletonClasses |-> NoInstance],
              made |-> [cls \in SingletonClasses |-> 0]]
    /\ last = [op |-> "none"]

NextSingleton ==
    \/ \E cls \in SingletonClasses : SingletonConstruct(cls)
    \/ \E cls \in SingletonClasses : SingletonInstantiate(cls)
    \/ \E cls \in SingletonClasses, inst \in 0..MaxInstances : SingletonReset(cls, inst)

SpecSingleton == InitSingleton /\ [][NextSingleton]_vars

\* C28: for every Singleton subclass at most one instance is registered:
\* constructing an instance while one is registered raises RuntimeError and
\* leaves the registered instance as it was, instantiate_singleton() returns the
\* registered instance without constructing another, and reset_singleton(other)
\* calls destroy on the instance registered before exactly once and registers
\* other.
C28_OneRegisteredInstance ==
    \A cls \in SingletonClasses :
        /\ obj.instance[cls] \in 0..obj.made[cls]
        /\ (last.op = "__init__" /\ last.cls = cls /\ last.before # NoInstance) =>
               /\ last.exc = "RuntimeError"
               /\ obj.instance[cls] = last.before
        /\ (last.op = "instantiate_singleton" /\ last.cls = cls
               /\ last.before # NoInstance) =>
               /\ last.returned = last.before
               /\ last.constructed = 0
               /\ obj.instance[cls] = last.before
        /\ (last.op = "reset_singleton" /\ last.cls = cls /\ last.before # NoInstance
               /\ last.inst # last.before) =>
               /\ last.destroyed = <<last.before>>
               /\ obj.instance[cls] = last.inst

(***************************************************************************)
(* Progress counters (framework/progress.py)                               *)
(***************************************************************************)

MaxProgress == 3

MaxValue == 2

\* the counter is not followed beyond this value of current
MaxCurrent == 6

python_min(a, b) == IF a < b THEN a ELSE b

python_max(a, b) == IF a > b THEN a ELSE b

\* start(max, current)
start(max, current) == [max |-> max, current |-> current]

set_current(counter, current) == [counter EXCEPT !.current = current]

reset_current(counter) == set_current(counter, 0)

finish(counter) == set_current(counter, counter.max)

increase(counter, v) ==
    LET current == counter.current + v
    IN  set_current(counter, python_min(current, counter.max))

\* the value is added here as well
decrease(counter, v) ==
    LET current == counter.current + v
    IN  set_current(counter, python_max(current, 0))

tick(counter) == increase(counter, 1)

ProgressCall(op, v, after) ==
    /\ after.current <= MaxCurrent
    /\ obj' = after
    /\ last' = [op |-> op, value |-> v, before |-> obj.current]
    /\ UNCHANGED <<fs, clock, datWritable, cacheFiles>>
    /\ UNCHANGED castVars
    /\ UNCHANGED fnVars

ProgressStart(max, current) == ProgressCall("start", 0, start(max, current))

ProgressResetCurrent == ProgressCall("reset_current", 0, reset_current(obj))

ProgressFinish == ProgressCall("finish", 0, finish(obj))

ProgressIncrease(v) == ProgressCall("increase", v, increase(obj, v))

ProgressDecrease(v) == ProgressCall("decrease", v, decrease(obj, v))

ProgressTick == ProgressCall("tick", 1, tick(obj))

\* ProgressCounter(max, current) with 0 <= current <= max
InitProgress ==
    /\ IdleCast
    /\ fs = [p \in {} |-> NoneV]
    /\ clock = 1
    /\ datWritable = TRUE
    /\ cacheFiles = <<>>
    /\ \E max \in 0..MaxProgress : \E current \in 0..max : obj = start(max, current)
    /\ last = [op |-> "start", value |-> 0, before |-> 0]

NextProgress ==
    \/ \E max \in 0..MaxProgress : \E current \in 0..max : ProgressStart(max, current)
    \/ ProgressResetCurrent
    \/ ProgressFinish
    \/ \E v \in 0..MaxValue : ProgressIncrease(v)
    \/ \E v \in 0..MaxValue : ProgressDecrease(v)
    \/ ProgressTick

SpecProgress == InitProgress /\ [][NextProgress]_vars

\* C29: for a ProgressCounter started with 0 <= current <= max, after any
\* sequence of increase(v), decrease(v), tick(), reset_current() and finish()
\* with v >= 0, 0 <= current <= max holds; increase never lowers current,
\* decrease never raises it, and finish() sets current to max.
C29_CurrentWithinBounds ==
    /\ 0 <= obj.current
    /\ obj.current <= obj.max
    /\ last.op \in {"increase", "tick"} => obj.current >= last.before
    /\ last.op = "decrease" => obj.current <= last.before
    /\ last.op = "finish" => obj.current = obj.max

(***************************************************************************)
(* Cameras and the camera manager (engine/camera.py, framework/runnable.py)*)
(***************************************************************************)

MaxCameras == 3

\* self.__active_camera = None
NoCamera == 0

\* prc.get_prc_double('default-fov', 30.0)
DefaultFov == 30

Fovs == {DefaultFov, 60}

\* create_task(...) hands back the task it made, remove_task(task) hands back None
create_task(c) == TRUE

remove_task(task) == FALSE

Noted(o, ev, c) == [o EXCEPT !.calls = Append(@, [ev |-> ev, camera |-> c])]

Runnable_is_activated(o, c) == o.task[c]

\* Runnable.activate(self): the objects after it and the value returned
Runnable_activate(o, c) ==
    IF ~o.task[c]
    THEN [o |-> Noted([o EXCEPT !.task[c] = create_task(c)], "create_task", c),
          returned |-> TRUE]
    ELSE [o |-> o, returned |-> FALSE]

Runnable_deactivate(o, c) ==
    IF o.task[c]
    THEN [o |-> Noted([o EXCEPT !.task[c] = remove_task(o.task[c])], "remove_task", c),
          returned |-> TRUE]
    ELSE [o |-> o, returned |-> FALSE]

has_camera(o, c) == InSeq(c, o.cameras)

\* CameraManager._register(camera)
CameraManager_register(o, c) ==
    IF has_camera(o, c) THEN o ELSE [o EXCEPT !.cameras = Append(@, c)]

\* Camera.set_fov(fov): the lens takes the value when the camera is activated
set_fov(o, c, fov) ==
    IF Runnable_is_activated(o, c)
    THEN [o EXCEPT !.fov[c] = fov, !.lens = fov]
    ELSE [o EXCEPT !.fov[c] = fov]

\* CameraManager._deactivate_camera(camera)
CameraManager_deactivate_camera(o, c) ==
    IF ~has_camera(o, c) THEN o
    ELSE IF o.active # c THEN o
    ELSE Noted([o EXCEPT !.active = NoCamera], "active", NoCamera)

\* Camera.deactivate(self)
Camera_deactivate(o, c) ==
    Runnable_deactivate(IF Runnable_is_activated(o, c)
                        THEN CameraManager_deactivate_camera(o, c) ELSE o, c)

\* _activate_camera without the deactivation of the camera that is active
CameraManager_activate_camera_over(o, c) ==
    IF ~has_camera(o, c) THEN o
    ELSE IF o.active = c THEN o
    ELSE Noted([o EXCEPT !.active = c], "active", c)

\* CameraManager._activate_camera(camera)
CameraManager_activate_camera(o, c) ==
    IF ~has_camera(o, c) THEN o
    ELSE IF o.active = c THEN o
    ELSE LET o1 == IF o.active # NoCamera THEN Camera_deactivate(o, o.active).o ELSE o
         IN  Noted([o1 EXCEPT !.active = c], "active", c)

\* Camera.activate(self)
Camera_activate(o, c) ==
    IF Runnable_is_activated(o, c) THEN [o |-> o, returned |-> FALSE]
    ELSE LET activated == Runnable_activate(o, c)
             managed == CameraManager_activate_camera(activated.o, c)
         IN  [o |-> set_fov(managed, c, managed.fov[c]),
              returned |-> activated.returned]

CameraCall(op, c, r) ==
    /\ obj' = [cameras |-> r.o.cameras, task |-> r.o.task, active |-> r.o.active,
               fov |-> r.o.fov, lens |-> r.o.lens]
    /\ last' = [op |-> op, camera |-> c, before |-> obj.active, tasks |-> obj.task,
                calls |-> r.o.calls, returned |-> r.returned]
    /\ UNCHANGED <<fs, clock, datWritable, cacheFiles>>
    /\ UNCHANGED castVars
    /\ UNCHANGED fnVars

Called(o) ==
    [cameras |-> o.cameras, task |-> o.task, active |-> o.active, fov |-> o.fov,
     lens |-> o.lens, calls |-> <<>>]

\* Camera(config_path) with the prc value default-fov being fov: the new camera
\* registers itself with the manager
CameraConstruct(fov) ==
    /\ Len(obj.cameras) < MaxCameras
    /\ LET c == Len(obj.cameras) + 1
           o == [Called(obj) EXCEPT !.fov[c] = fov]
       IN  CameraCall("__init__", c,
                      [o |-> CameraManager_register(o, c), returned |-> FALSE])

CameraActivate(c) ==
    /\ has_camera(obj, c)
    /\ CameraCall("activate", c, Camera_activate(Called(obj), c))

CameraDeactivate(c) ==
    /\ has_camera(obj, c)
    /\ CameraCall("deactivate", c, Camera_deactivate(Called(obj), c))

\* the CameraManager singleton is instantiated, no camera is constructed yet
InitCamera ==
    /\ IdleCast
    /\ fs = [p \in {} |-> NoneV]
    /\ clock = 1
    /\ datWritable = TRUE
    /\ cacheFiles = <<>>
    /\ obj = [cameras |-> <<>>, task |-> [c \in 1..MaxCameras |-> FALSE],
              active |-> NoCamera, fov |-> [c \in 1..MaxCameras |-> DefaultFov],
              lens |-> DefaultFov]
    /\ last = [op |-> "none"]

NextCamera ==
    \/ \E fov \in Fovs : CameraConstruct(fov)
    \/ \E c \in 1..MaxCameras : CameraActivate(c)
    \/ \E c \in 1..MaxCameras : CameraDeactivate(c)

SpecCamera == InitCamera /\ [][NextCamera]_vars

Activated == { c \in 1..MaxCameras : has_camera(obj, c) /\ Runnable_is_activated(obj, c) }

====
